---- MODULE Spec2Model ----
(***************************************************************************)
(* A model of pyk's all-path reachability proofs (pyk/proof/reachability.py):*)
(* the proof state APRProof / APRBMCProof with its leaf classification and *)
(* derived status, the persisted record (dict / from_dict), the prover     *)
(* loops APRProver.advance_proof and APRBMCProver.advance_proof, and node  *)
(* refutation.  The proof graph (KCFG) and the backend (KCFGExplore) are   *)
(* not part of the listed sources; they are modelled from the interface    *)
(* the specification document gives for them.  The model also covers the  *)
(* sort lattice of a kompiled definition (pyk/kore/kompiled.py) and the    *)
(* invocation of krun (pyk/ktool/krun.py).                                 *)
(***************************************************************************)
EXTENDS Integers, Sequences, FiniteSets, TLC

VARIABLES
    proof,       \* the in-memory APRProof / APRBMCProof object
    substatus,   \* Proof._subproofs: sub-proof id -> status of that sub-proof
    pc,          \* position of the prover: "idle" or inside advance_proof ("loop")
    run,         \* locals of the running advance_proof call
    checked,     \* APRBMCProver._checked_nodes
    memo,        \* nodes on which the caller's is_terminal predicate was seen to hold
    world,       \* the claim and callbacks the prover runs with: "free", "goto",
                 \* "stall" or "chain"
    disk,        \* the persisted record of the proof (last write_proof), or NoRecord
    restored,    \* result of the last from_dict: a proof object, an error, or NoProof
    trace,       \* what the latest call did: the leaves a pass of the prover's loop
                 \* marked bounded and what its steps returned, one by one, or
                 \* what refute_node returned; empty after any other call
    kompiled,    \* the KompiledKore object: the subsort facts its definition declares
    answer,      \* the latest call on the KompiledKore object and its outcome
    invoked      \* the latest invocation of krun and its outcome

vars == <<proof, substatus, pc, run, checked, memo, world, disk, restored, trace, kompiled, answer, invoked>>

----------------------------------------------------------------------------
(* Bounds of the model *)

\* the graph never holds more than MaxNodes nodes
MaxNodes == 4
\* _terminal_nodes and _bounded_nodes never hold more than MaxMarks entries
MaxMarks == 2
\* bmc_depth is drawn from 0..MaxBmcDepth
MaxBmcDepth == 1
\* max_iterations is drawn from 1..MaxBudget (or is None)
MaxBudget == 2
\* in the goto world bmc_depth is drawn from 0..MaxLoopDepth
MaxLoopDepth == 3
\* in the stall world a call without budget makes at most MaxPasses passes
MaxPasses == 3
\* in the chain world the chain has 0..MaxChain rewrite steps
MaxChain == 3
\* the terms given to add_injections are of the top sort or one of the first
\* MaxTermSorts sorts, of depth up to MaxTermDepth, with symbols of up to
\* MaxArity arguments
MaxTermSorts == 3
MaxTermDepth == 1
MaxArity == 2
\* a krun process exits with a code in 0..MaxExitCode
MaxExitCode == 2
\* the depth of a krun invocation is None or in -MaxDepth..MaxDepth
MaxDepth == 1
\* a definition declares MaxSorts sorts besides the top sort
MaxSorts == 5
\* facts that make a cycle are drawn between the first MaxCyclicSorts sorts
MaxCyclicSorts == 3
\* the substitution of a branch of a Split binds 0..MaxSubst variables
MaxSubst == 1
\* a branch of a Split adds 0..MaxConstraints constraints
MaxConstraints == 2
\* the nodes of the goto world: per round of the loop its head, the two
\* branches and the end state; and the target
GotoMaxNodes == 4 * (MaxLoopDepth + 1) + 2

None == "None"
\* max_iterations = None
NoBudget == -1
NoRecord == [type |-> "NoRecord"]
NoProof == [type |-> "NoProof"]
PENDING == "PENDING"
PASSED == "PASSED"
FAILED == "FAILED"

----------------------------------------------------------------------------
(* Sequence helpers *)

Range(s) == {s[i] : i \in DOMAIN s}

RECURSIVE SeqOfSet(_)
\* the elements of a set of integers, ascending
SeqOfSet(S) ==
    IF S = {} THEN <<>>
    ELSE LET m == CHOOSE x \in S : \A y \in S : x <= y
         IN <<m>> \o SeqOfSet(S \ {m})

RECURSIVE Concat(_)
Concat(ss) == IF ss = <<>> THEN <<>> ELSE Head(ss) \o Concat(Tail(ss))

\* concatenation of a sequence of sequences; ss is enumerated once, as a
\* tuple, before it is taken apart
Flatten(ss) == Concat(<<>> \o ss)

\* list.remove(x): drops the first occurrence of x (x must occur)
RemoveFirst(s, x) ==
    LET i == CHOOSE k \in DOMAIN s : s[k] = x /\ \A j \in 1..(k - 1) : s[j] # x
    IN [k \in 1..(Len(s) - 1) |-> IF k < i THEN s[k] ELSE s[k + 1]]

\* a function without the key k (dict.pop / del)
DropKey(f, k) == [x \in DOMAIN f \ {k} |-> f[x]]

\* a function with the key k set to v (dict[k] = v)
PutKey(f, k, v) == [x \in DOMAIN f \cup {k} |-> IF x = k THEN v ELSE f[x]]

----------------------------------------------------------------------------
(* The proof graph (KCFG).  cfg.nodes is the sequence of node contents, the *)
(* node id being the index; cfg.succs the successors in insertion order;   *)
(* cfg.stuck the nodes the backend could not step; cfg.aliases the alias   *)
(* table.  Of a node's content (its symbolic state) the model keeps what   *)
(* the prover's callbacks look at: loop, whether the state is at the loop  *)
(* head same_loop recognises, and branch, the discriminant the last Split  *)
(* added to its constraints (0: none).                                     *)

Content(loop, branch) == [loop |-> loop, branch |-> branch]

\* a state of the chain world: left is the number of rewrite steps from it
\* to the end of the chain
ChainContent(left) == [loop |-> FALSE, branch |-> 0, left |-> left]

NodeIds(cfg) == DOMAIN cfg.nodes

\* KCFG._resolve: an alias maps to its node id, a node id to itself
Resolve(cfg, nid) == IF nid \in DOMAIN cfg.aliases THEN cfg.aliases[nid] ELSE nid

\* KCFG.successors(source_id)
SuccessorsOf(cfg, n) == {i \in DOMAIN cfg.succs : cfg.succs[i].source = n}

\* KCFG.predecessors(target_id): the successors that lead into n
PredecessorsOf(cfg, n) == {i \in DOMAIN cfg.succs : n \in Range(cfg.succs[i].targets)}

\* KCFG.is_leaf
IsLeaf(cfg, nid) == SuccessorsOf(cfg, Resolve(cfg, nid)) = {}

\* KCFG.leaves, as the set of leaf ids
Leaves(cfg) == {n \in NodeIds(cfg) : IsLeaf(cfg, n)}

\* KCFG.is_stuck: a leaf the backend could not step
IsStuck(cfg, nid) == IsLeaf(cfg, nid) /\ Resolve(cfg, nid) \in cfg.stuck

\* KCFG.splits(target_id=n): the Splits one of whose targets is n
SplitsInto(cfg, n) ==
    {i \in PredecessorsOf(cfg, n) : cfg.succs[i].kind = "Split"}

\* MultiEdge.with_single_target: the successor restricted to its k-th target
WithSingleTarget(s, k) ==
    [s EXCEPT !.targets = <<s.targets[k]>>, !.csubsts = <<s.csubsts[k]>>]

RECURSIVE PathsFrom(_, _, _, _)
\* KCFG.paths_between: all simple paths a -> b, in insertion order; a path
\* is the sequence of its successors, each restricted to the target taken
PathsFrom(cfg, a, b, seen) ==
    IF a = b THEN << <<>> >>
    ELSE LET out == SeqOfSet(SuccessorsOf(cfg, a))
             Via(i, k) ==
                 LET s == cfg.succs[i]
                     t == s.targets[k]
                 IN IF t \in seen THEN <<>>
                    ELSE LET rest == PathsFrom(cfg, t, b, seen \cup {t})
                         IN [j \in DOMAIN rest |->
                                <<WithSingleTarget(s, k)>> \o rest[j]]
             OfSucc(i) ==
                 Flatten([k \in DOMAIN cfg.succs[i].targets |-> Via(i, k)])
         IN Flatten([j \in DOMAIN out |-> OfSucc(out[j])])

PathsBetween(cfg, a, b) ==
    PathsFrom(cfg, Resolve(cfg, a), Resolve(cfg, b), {Resolve(cfg, a)})

\* shortest_path_between returning None
NoPath == <<[kind |-> None]>>

\* KCFG.shortest_path_between: the first-found path of least length, or None
ShortestPathBetween(cfg, a, b) ==
    LET ps == PathsBetween(cfg, a, b)
    IN IF ps = <<>> THEN NoPath
       ELSE LET i == CHOOSE k \in DOMAIN ps :
                        /\ \A j \in DOMAIN ps : Len(ps[k]) <= Len(ps[j])
                        /\ \A j \in 1..(k - 1) : Len(ps[j]) > Len(ps[k])
            IN ps[i]

RECURSIVE PathLength(_)
\* KCFG.path_length: Split and Cover cost nothing, an NDBranch one step, an
\* Edge its depth
PathLength(path) ==
    IF path = <<>> THEN 0
    ELSE LET s == Head(path)
             c == CASE s.kind = "Edge" -> s.depth
                    [] s.kind = "NDBranch" -> 1
                    [] OTHER -> 0
         IN c + PathLength(Tail(path))

\* a path of zero length leads from a to b
ZeroPath(cfg, a, b) ==
    LET ps == PathsBetween(cfg, a, b)
    IN \E j \in DOMAIN ps : PathLength(ps[j]) = 0

\* KCFG.zero_depth_between: a and b are connected through zero-cost
\* successors only
ZeroDepthBetween(cfg, a, b) == ZeroPath(cfg, a, b) \/ ZeroPath(cfg, b, a)

\* KCFG.create_node for a state not yet in the graph
CreateNode(cfg, content) == [cfg EXCEPT !.nodes = Append(@, content)]

NoCsubst == [subst |-> 0, constraints |-> 0]

\* create_edge with source and target the wrong way round
CreateEdge_Reversed(cfg, a, b, d) ==
    [cfg EXCEPT !.succs = Append(@, [kind |-> "Edge", source |-> b,
        targets |-> <<a>>, depth |-> d, csubsts |-> <<NoCsubst>>])]

\* KCFG.create_edge
CreateEdge(cfg, a, b, d) ==
    [cfg EXCEPT !.succs = Append(@, [kind |-> "Edge", source |-> a,
        targets |-> <<b>>, depth |-> d, csubsts |-> <<NoCsubst>>])]

\* KCFG.create_cover
CreateCover(cfg, a, b) ==
    [cfg EXCEPT !.succs = Append(@, [kind |-> "Cover", source |-> a,
        targets |-> <<b>>, depth |-> 0, csubsts |-> <<NoCsubst>>])]

\* KCFG.create_split: ts the targets, cs the constrained substitution of each
CreateSplit(cfg, a, ts, cs) ==
    [cfg EXCEPT !.succs = Append(@, [kind |-> "Split", source |-> a,
        targets |-> ts, depth |-> 0, csubsts |-> cs])]

\* KCFG.create_ndbranch
CreateNDBranch(cfg, a, ts) ==
    [cfg EXCEPT !.succs = Append(@, [kind |-> "NDBranch", source |-> a,
        targets |-> ts, depth |-> 0, csubsts |-> [k \in DOMAIN ts |-> NoCsubst]])]

\* KCFG.split_on_constraints with two discriminants: one child per
\* discriminant, each with an empty substitution and that one constraint;
\* a child has the configuration of its source
SplitOnConstraints(cfg, a) ==
    LET n == Len(cfg.nodes)
        c1 == CreateNode(CreateNode(cfg, Content(cfg.nodes[a].loop, 1)),
                         Content(cfg.nodes[a].loop, 2))
        one == [subst |-> 0, constraints |-> 1]
    IN CreateSplit(c1, a, <<n + 1, n + 2>>, <<one, one>>)

\* KCFG.add_stuck
AddStuck(cfg, a) == [cfg EXCEPT !.stuck = @ \cup {a}]

\* KCFG.from_claim: the init node, the target node, no successor
FromClaimCfg(initLoop) ==
    [nodes |-> <<Content(initLoop, 0), Content(FALSE, 0)>>, succs |-> <<>>,
     stuck |-> {}, aliases |-> <<>>]

----------------------------------------------------------------------------
(* Proof state: APRProof and APRBMCProof *)

IsBMC(p) == p.type = "APRBMCProof"

\* Proof.subproofs_status
SubproofsStatus(p, st) ==
    IF \E i \in p.subproof_ids : st[i] = FAILED THEN FAILED
    ELSE IF \E i \in p.subproof_ids : st[i] = PENDING THEN PENDING
    ELSE PASSED

is_refuted(p, n) == Resolve(p.kcfg, n) \in DOMAIN p.node_refutations

is_terminal(p, n) ==
    Resolve(p.kcfg, n) \in {Resolve(p.kcfg, t) : t \in Range(p.terminal_nodes)}

is_init(p, n) == Resolve(p.kcfg, n) = Resolve(p.kcfg, p.init)

is_target(p, n) == Resolve(p.kcfg, n) = Resolve(p.kcfg, p.target)

is_bounded(p, n) ==
    Resolve(p.kcfg, n) \in {Resolve(p.kcfg, t) : t \in Range(p.bounded_nodes)}

\* variant of APRProof.is_pending that does not look at the refutations
APRProof_is_pending_Refuted(p, n) ==
    /\ IsLeaf(p.kcfg, n)
    /\ ~(\/ is_terminal(p, n)
         \/ IsStuck(p.kcfg, n)
         \/ is_target(p, n))

APRProof_is_pending(p, n) ==
    /\ IsLeaf(p.kcfg, n)
    /\ ~(\/ is_terminal(p, n)
         \/ IsStuck(p.kcfg, n)
         \/ is_target(p, n)
         \/ is_refuted(p, n))

\* variant of APRBMCProof.is_pending that does not exclude the target
APRBMCProof_is_pending_Target(p, n) ==
    /\ IsLeaf(p.kcfg, n)
    /\ ~(\/ is_terminal(p, n)
         \/ IsStuck(p.kcfg, n)
         \/ is_bounded(p, n))

\* variant of APRBMCProof.is_pending that does not exclude the bounded leaves
APRBMCProof_is_pending_Bounded(p, n) ==
    /\ IsLeaf(p.kcfg, n)
    /\ ~(\/ is_terminal(p, n)
         \/ IsStuck(p.kcfg, n)
         \/ is_target(p, n))

APRBMCProof_is_pending(p, n) ==
    /\ IsLeaf(p.kcfg, n)
    /\ ~(\/ is_terminal(p, n)
         \/ IsStuck(p.kcfg, n)
         \/ is_bounded(p, n)
         \/ is_target(p, n))

\* is_pending, dispatched on the class of the proof
is_pending(p, n) ==
    IF IsBMC(p) THEN APRBMCProof_is_pending(p, n) ELSE APRProof_is_pending(p, n)

APRProof_is_failing(p, n) ==
    /\ IsLeaf(p.kcfg, n)
    /\ ~(is_pending(p, n) \/ is_target(p, n) \/ is_refuted(p, n))

\* variant of APRBMCProof.is_failing that does not exclude bounded leaves
APRBMCProof_is_failing_Bounded(p, n) ==
    /\ IsLeaf(p.kcfg, n)
    /\ ~(is_pending(p, n) \/ is_target(p, n))

APRBMCProof_is_failing(p, n) ==
    /\ IsLeaf(p.kcfg, n)
    /\ ~(is_pending(p, n) \/ is_target(p, n) \/ is_bounded(p, n))

\* is_failing, dispatched on the class of the proof
is_failing(p, n) ==
    IF IsBMC(p) THEN APRBMCProof_is_failing(p, n) ELSE APRProof_is_failing(p, n)

\* APRProof.pending / failing / APRBMCProof.bounded, as sets of leaf ids
pending(p) == {n \in Leaves(p.kcfg) : is_pending(p, n)}

failing(p) == {n \in Leaves(p.kcfg) : is_failing(p, n)}

bounded(p) == {n \in Leaves(p.kcfg) : is_bounded(p, n)}

\* variant of APRProof.status that looks for pending leaves first
status_PendingFirst(p, st) ==
    IF p.admitted THEN PASSED
    ELSE IF pending(p) # {} \/ SubproofsStatus(p, st) = PENDING THEN PENDING
    ELSE IF failing(p) # {} \/ SubproofsStatus(p, st) = FAILED THEN FAILED
    ELSE PASSED

\* variant of APRProof.status that does not look at admitted
status_NotAdmitted(p, st) ==
    IF failing(p) # {} \/ SubproofsStatus(p, st) = FAILED THEN FAILED
    ELSE IF pending(p) # {} \/ SubproofsStatus(p, st) = PENDING THEN PENDING
    ELSE PASSED

\* APRProof.status
status(p, st) ==
    IF p.admitted THEN PASSED
    ELSE IF failing(p) # {} \/ SubproofsStatus(p, st) = FAILED THEN FAILED
    ELSE IF pending(p) # {} \/ SubproofsStatus(p, st) = PENDING THEN PENDING
    ELSE PASSED

\* APRProof.shortest_path_to
shortest_path_to(p, n) == ShortestPathBetween(p.kcfg, p.init, n)

\* APRProof.get_refutation_id
get_refutation_id(p, n) == <<p.id, "node-infeasible", n>>

----------------------------------------------------------------------------
(* Construction and the persisted record *)

\* what a constructor or from_dict gives instead of a proof when it raises
ValueError == [type |-> "ValueError"]
TypeError == [type |-> "TypeError"]
IsError(x) == x.type \in {"ValueError", "TypeError"}
IsProof(x) == x.type \in {"APRProof", "APRBMCProof"}

\* APRProof.__init__; refs maps node ids to sub-proof ids
APRProofInit(id, kcfg, init, target, logs, proof_dir, refs, terminal_nodes, subproof_ids, circularity, admitted) ==
    IF {refs[n] : n \in DOMAIN refs} \ subproof_ids # {} THEN ValueError
    ELSE [type |-> "APRProof", id |-> id, proof_dir |-> proof_dir,
          admitted |-> admitted,
          subproof_ids |-> subproof_ids, kcfg |-> kcfg, init |-> init,
          target |-> target, terminal_nodes |-> terminal_nodes,
          node_refutations |-> refs, circularity |-> circularity,
          logs |-> logs]

\* APRBMCProof.__init__: the base constructor is called without
\* terminal_nodes
APRBMCProofInit(id, kcfg, init, target, logs, bmc_depth, bounded_nodes, proof_dir, subproof_ids, refs, circularity, admitted) ==
    LET base == APRProofInit(id, kcfg, init, target, logs, proof_dir, refs,
                             <<>>, subproof_ids, circularity, admitted)
    IN IF IsError(base) THEN base
       ELSE [type |-> "APRBMCProof", id |-> base.id,
             proof_dir |-> base.proof_dir,
             admitted |-> base.admitted, subproof_ids |-> base.subproof_ids,
             kcfg |-> base.kcfg, init |-> base.init, target |-> base.target,
             terminal_nodes |-> base.terminal_nodes,
             node_refutations |-> base.node_refutations,
             circularity |-> base.circularity, logs |-> base.logs,
             bmc_depth |-> bmc_depth, bounded_nodes |-> bounded_nodes]

\* APRProof.from_claim; kwargs carry proof_dir, admitted and circularity
from_claim(proof_dir, admitted, circularity) ==
    APRProofInit("claim", FromClaimCfg(FALSE), 1, 2, <<>>, proof_dir, <<>>,
                 <<>>, {}, circularity, admitted)

\* APRBMCProof.from_claim_with_bmc_depth
from_claim_with_bmc_depth(initLoop, bmc_depth) ==
    APRBMCProofInit("claim", FromClaimCfg(initLoop), 1, 2, <<>>, bmc_depth,
                    <<>>, None, {}, <<>>, FALSE, FALSE)

\* KCFG.to_dict: the structural record of the graph
CfgToDict(cfg) ==
    [next |-> Len(cfg.nodes) + 1,
     nodes |-> {<<i, cfg.nodes[i]>> : i \in DOMAIN cfg.nodes},
     successors |-> cfg.succs,
     stuck |-> SeqOfSet(cfg.stuck),
     aliases |-> cfg.aliases]

\* KCFG.from_dict
CfgFromDict(d) ==
    [nodes |-> [i \in 1..(d.next - 1) |->
                   (CHOOSE pr \in d.nodes : pr[1] = i)[2]],
     succs |-> d.successors,
     stuck |-> Range(d.stuck),
     aliases |-> d.aliases]

\* LogEntry.to_dict / LogEntry.from_dict
LogToDict(l) == <<"rewrite", l>>
LogFromDict(d) == d[2]

LogsToDict(logs) ==
    [k \in DOMAIN logs |-> [i \in DOMAIN logs[k] |-> LogToDict(logs[k][i])]]
LogsFromDict(d) ==
    [k \in DOMAIN d |-> [i \in DOMAIN d[k] |-> LogFromDict(d[k][i])]]

\* APRProof.dict (with the fields of Proof.dict)
APRProof_dict(p) ==
    [id |-> p.id, subproof_ids |-> p.subproof_ids, admitted |-> p.admitted,
     type |-> "APRProof", cfg |-> CfgToDict(p.kcfg), init |-> p.init,
     target |-> p.target, terminal_nodes |-> p.terminal_nodes,
     node_refutations |-> [form |-> "dict", entries |-> p.node_refutations],
     circularity |-> p.circularity, logs |-> LogsToDict(p.logs)]

\* APRBMCProof.dict
APRBMCProof_dict(p) ==
    LET d == APRProof_dict(p)
    IN [id |-> d.id, subproof_ids |-> d.subproof_ids, admitted |-> d.admitted,
        type |-> "APRBMCProof", cfg |-> d.cfg, init |-> d.init,
        target |-> d.target, terminal_nodes |-> d.terminal_nodes,
        node_refutations |-> d.node_refutations,
        circularity |-> p.circularity, logs |-> LogsToDict(p.logs),
        bmc_depth |-> p.bmc_depth, bounded_nodes |-> p.bounded_nodes]

\* dict, dispatched on the class of the proof
dict(p) == IF IsBMC(p) THEN APRBMCProof_dict(p) ELSE APRProof_dict(p)

\* the key under which from_dict looks for the refutations
RefutationsKey == "node_refutation"

\* from_dict: the node_refutations it hands to the constructor.  The
\* comprehension unpacks (node_id, proof_id) pairs, so a mapping (whose
\* iteration yields bare keys) cannot be unpacked
ReadRefutations(dct, cfg) ==
    IF RefutationsKey \in DOMAIN dct
    THEN IF dct.node_refutations.form = "pairs"
         THEN LET prs == dct.node_refutations.entries
              IN [type |-> "dict",
                  map |-> [n \in {Resolve(cfg, pr[1]) : pr \in prs} |->
                             (CHOOSE pr \in prs : Resolve(cfg, pr[1]) = n)[2]]]
         ELSE IF DOMAIN dct.node_refutations.entries = {}
              THEN [type |-> "dict", map |-> <<>>]
              ELSE TypeError
    ELSE [type |-> "dict", map |-> <<>>]

\* APRProof.from_dict
APRProof_from_dict(dct, proof_dir) ==
    LET cfg == CfgFromDict(dct.cfg)
        refs == ReadRefutations(dct, cfg)
    IN IF IsError(refs) THEN refs
       ELSE APRProofInit(dct.id, cfg, dct.init, dct.target,
                LogsFromDict(dct.logs), proof_dir, refs.map,
                dct.terminal_nodes, dct.subproof_ids, dct.circularity,
                dct.admitted)

\* APRBMCProof.from_dict
APRBMCProof_from_dict(dct, proof_dir) ==
    LET cfg == CfgFromDict(dct.cfg)
        refs == ReadRefutations(dct, cfg)
    IN IF IsError(refs) THEN refs
       ELSE APRBMCProofInit(dct.id, cfg, dct.init, dct.target,
                LogsFromDict(dct.logs), dct.bmc_depth, dct.bounded_nodes,
                proof_dir, dct.subproof_ids, refs.map, dct.circularity,
                dct.admitted)

\* Proof.read_proof: the class named by the record's type restores it
from_dict(dct, proof_dir) ==
    IF dct.type = "APRBMCProof" THEN APRBMCProof_from_dict(dct, proof_dir)
    ELSE APRProof_from_dict(dct, proof_dir)

\* Proof.write_proof: the record on disk after p is written; a proof without
\* a proof directory is not written
write_proof(p, d) == IF p.proof_dir = None THEN d ELSE dict(p)

----------------------------------------------------------------------------
(* APRBMCProver: the bookkeeping before each base iteration *)

\* the caller's same_loop: both states are at the loop head
same_loop(cfg, a, b) == cfg.nodes[a].loop /\ cfg.nodes[b].loop

\* _prior_loops: the sources on the shortest path that same_loop relates to f
PriorLoopCandidates(p, f) ==
    LET path == shortest_path_to(p, f)
    IN SelectSeq([i \in DOMAIN path |-> path[i].source],
                 LAMBDA s : same_loop(p.kcfg, s, f))

\* prior_loops without the dropping: every candidate counts
DedupLoops_KeepAll(cfg, f, cand, acc) == cand

RECURSIVE DedupLoops(_, _, _, _)
\* prior_loops: a candidate is dropped when at zero depth from f or from
\* an accepted one
DedupLoops(cfg, f, cand, acc) ==
    IF cand = <<>> THEN acc
    ELSE LET x == Head(cand)
             drop == \/ ZeroDepthBetween(cfg, x, f)
                     \/ \E i \in DOMAIN acc : ZeroDepthBetween(cfg, x, acc[i])
         IN DedupLoops(cfg, f, Tail(cand), IF drop THEN acc ELSE Append(acc, x))

PriorLoops(p, f) == DedupLoops(p.kcfg, f, PriorLoopCandidates(p, f), <<>>)

\* variant of the bookkeeping that bounds a leaf with bmc_depth prior loop
\* heads already
NewlyBounded_AtDepth(p, chk) ==
    {f \in pending(p) \ chk : Len(PriorLoops(p, f)) >= p.bmc_depth}

\* the leaves the bookkeeping of one iteration marks bounded
NewlyBounded(p, chk) ==
    {f \in pending(p) \ chk : Len(PriorLoops(p, f)) > p.bmc_depth}

\* the proof after the bookkeeping of the pending leaves not yet checked
Bookkeep(p, chk) ==
    [p EXCEPT !.bounded_nodes = @ \o SeqOfSet(NewlyBounded(p, chk))]

----------------------------------------------------------------------------
(* The prover: one iteration of APRProver.advance_proof on the proof p.    *)
(* The backend and the caller's predicates are oracles: what they answer   *)
(* for the current node is drawn when they are asked.                      *)

NoRun == [max_iterations |-> NoBudget, iterations |-> 0]

\* the node an iteration handles: pending[0], the first pending leaf
CurrNode(p) == CHOOSE n \in pending(p) : \A m \in pending(p) : n <= m

\* the most nodes the graph holds in the world the prover runs in
NodeCap ==
    IF world = "goto" THEN GotoMaxNodes
    ELSE IF world = "chain" THEN MaxChain + 2
    ELSE MaxNodes

\* the graph has room for k more nodes
Room(p, k) == Len(p.kcfg.nodes) + k <= NodeCap

(* What the backend and the callbacks can answer for the node c.  In the   *)
(* free world any answer is possible, except that a node on which          *)
(* is_terminal held before (and subsumption failed) answers the same again.*)
(* The goto world is the looping claim of test_goto.py with its callbacks: *)
(* a state off the loop head is the end state and implies the target;      *)
(* _is_terminal is False; no abstract_node; _extract_branches proposes the *)
(* two discriminants at the loop head (jumpi); the branch of the first     *)
(* discriminant leaves the loop, the branch of the second comes round to   *)
(* the loop head again.  The stall world is one whose backend may also     *)
(* report nothing at all for the node it is asked to advance.  The chain   *)
(* world is a claim whose execution is one chain of rewrite steps: a state *)
(* has left steps to go, the backend advances it by one step, and the      *)
(* state with none left implies the target; no callback is given.          *)

\* cterm_implies(node, target) is not None
ImpliesAnswers(p, c) ==
    IF world = "goto" THEN {~p.kcfg.nodes[c].loop}
    ELSE IF world = "chain" THEN {p.kcfg.nodes[c].left = 0}
    ELSE IF c \in memo THEN {FALSE} ELSE BOOLEAN

\* _is_terminal(node.cterm)
TerminalAnswers(p, c) ==
    IF world \in {"goto", "chain"} THEN {FALSE}
    ELSE IF c \in memo THEN {TRUE} ELSE BOOLEAN

\* _abstract_node is given and returns another term
AbstractAnswers(p, c) == IF world \in {"goto", "chain"} THEN {FALSE} ELSE BOOLEAN

\* _extract_branches is given and returns discriminants
BranchAnswers(p, c) ==
    IF world = "goto" THEN {p.kcfg.nodes[c].loop}
    ELSE IF world = "chain" THEN {FALSE}
    ELSE BOOLEAN

\* what the backend step can report for the node
ExtendAnswers(p, c) ==
    IF world \in {"goto", "chain"} THEN {"Edge"}
    ELSE IF world = "stall" THEN {"Edge", "stuck", "nothing"}
    ELSE {"Edge", "EdgeBack", "stuck", "Split", "NDBranch"}

\* the contents the node a backend step from c creates can have; outside
\* a BMC proof nothing looks at loop heads
Contents(p, c) ==
    IF world = "goto" THEN {Content(p.kcfg.nodes[c].branch = 2, 0)}
    ELSE IF world = "chain" THEN {ChainContent(p.kcfg.nodes[c].left - 1)}
    ELSE IF IsBMC(p) THEN {Content(TRUE, 0), Content(FALSE, 0)}
    ELSE {Content(FALSE, 0)}

\* APRProver.nonzero_depth
nonzero_depth(p, c) == ~ZeroDepthBetween(p.kcfg, p.init, c)

\* the rule-sets APRProver.__init__ hands to the backend
DependenciesModule == "DEPENDS-MODULE"
CircularitiesModule == "CIRCULARITIES-MODULE"

\* the claims of a rule-set: those of the APRProof sub-proofs (none here,
\* the sub-proofs being refutations) and, in the circularities rule-set of
\* a proof with circularity set, the proof's own claim
RuleSet(p, module) ==
    IF module = CircularitiesModule /\ p.circularity THEN {p.id} ELSE {}

\* the choice of the rule-set without the depth test
module_name_AnyDepth(p, c) == CircularitiesModule

\* the rule-set advance_proof executes the node under
module_name(p, c) ==
    IF nonzero_depth(p, c) THEN CircularitiesModule ELSE DependenciesModule

\* one entry of trace: the step, the node it was called on, what it
\* returned, and for the backend step the rule-set it ran under
Returned(step, c, result, module) ==
    [step |-> step, node |-> c, result |-> result, module |-> module]

\* what the bookkeeping of a pass of APRBMCProver leaves in trace: the
\* leaves it marks bounded, in the order of the pending list
Bookkept ==
    IF IsBMC(proof)
    THEN LET fs == SeqOfSet(NewlyBounded(proof, checked))
         IN <<>> \o [i \in DOMAIN fs |-> Returned("add_bounded", fs[i], None, None)]
    ELSE <<>>

\* what a pass has left in trace when it comes to the checks on the node
\* c, and the entries of the first k checks, all returning False
Passed(c, k) ==
    Bookkept \o
    SubSeq(<<Returned("_check_subsume", c, "False", None),
             Returned("_check_terminal", c, "False", None),
             Returned("_check_abstract", c, "False", None)>>, 1, k)

\* _check_subsume marking the node terminal in place of the Cover
CheckSubsume_Terminal(p, c) ==
    /\ TRUE \in ImpliesAnswers(p, c)
    /\ proof' = [p EXCEPT !.terminal_nodes = Append(@, Resolve(p.kcfg, c))]
    /\ memo' = memo
    /\ trace' = Append(Passed(c, 0), Returned("_check_subsume", c, "True", None))

\* _check_subsume returning True: the node implies the target
CheckSubsume(p, c) ==
    /\ TRUE \in ImpliesAnswers(p, c)
    /\ proof' = [p EXCEPT !.kcfg = CreateCover(@, c, p.target)]
    /\ memo' = memo
    /\ trace' = Append(Passed(c, 0), Returned("_check_subsume", c, "True", None))

\* _check_terminal returning True (after _check_subsume returned False)
CheckTerminal(p, c) ==
    /\ FALSE \in ImpliesAnswers(p, c)
    /\ TRUE \in TerminalAnswers(p, c)
    /\ Len(p.terminal_nodes) < MaxMarks
    /\ proof' = [p EXCEPT !.terminal_nodes = Append(@, Resolve(p.kcfg, c))]
    /\ memo' = memo \cup {c}
    /\ trace' = Append(Passed(c, 1), Returned("_check_terminal", c, "True", None))

\* the first two checks returned False
NotClosed(p, c) ==
    FALSE \in ImpliesAnswers(p, c) /\ FALSE \in TerminalAnswers(p, c)

\* _check_abstract returning True: create_node of the generalised state
\* (an existing node when the graph holds that state) and a Cover to it
CheckAbstract(p, c) ==
    /\ NotClosed(p, c)
    /\ TRUE \in AbstractAnswers(p, c)
    /\ \/ \E m \in NodeIds(p.kcfg) \ {c} :
             proof' = [p EXCEPT !.kcfg = CreateCover(@, c, m)]
       \/ /\ Room(p, 1)
          /\ \E ct \in Contents(p, c) :
                proof' = [p EXCEPT !.kcfg = CreateCover(CreateNode(@, ct), c,
                                                         Len(p.kcfg.nodes) + 1)]
    /\ memo' = memo
    /\ trace' = Append(Passed(c, 2), Returned("_check_abstract", c, "True", None))

\* the branch heuristic tried on every node
BranchesTried_Always(p, c) == TRUE

\* the branch heuristic is tried: no Split leads into the node
BranchesTried(p, c) == SplitsInto(p.kcfg, c) = {}

\* the branch heuristic: _extract_branches proposes discriminants and the
\* node is split on them
ExtractBranches(p, c) ==
    /\ NotClosed(p, c)
    /\ FALSE \in AbstractAnswers(p, c)
    /\ BranchesTried(p, c)
    /\ TRUE \in BranchAnswers(p, c)
    /\ Room(p, 2)
    /\ proof' = [p EXCEPT !.kcfg = SplitOnConstraints(@, c)]
    /\ memo' = memo
    /\ trace' = Append(Passed(c, 3), Returned("_extract_branches", c, "True", None))

\* what a pass that reaches the backend step leaves in trace: the checks
\* that returned False and what the backend reported, with the rule-set
Extended(p, c, reported) ==
    Passed(c, 3)
    \o (IF BranchesTried(p, c)
        THEN <<Returned("_extract_branches", c, "False", None)>>
        ELSE <<>>)
    \o <<Returned("extend", c, reported, module_name(p, c))>>

\* KCFGExplore.extend: the backend step.  It reports a basic block (an Edge
\* to the state reached, with its log; EdgeBack when the graph holds that
\* state already), no next state (stuck), a branch on constraints (a Split)
\* or a nondeterministic branch
Extend(p, c) ==
    /\ NotClosed(p, c)
    /\ FALSE \in AbstractAnswers(p, c)
    /\ ~BranchesTried(p, c) \/ FALSE \in BranchAnswers(p, c)
    /\ \/ /\ "Edge" \in ExtendAnswers(p, c)
          /\ Room(p, 1)
          /\ trace' = Extended(p, c, "Edge")
          /\ \E ct \in Contents(p, c) :
                LET n == Len(p.kcfg.nodes) + 1
                IN proof' = [p EXCEPT
                       !.kcfg = CreateEdge(CreateNode(@, ct), c, n, 1),
                       !.logs = PutKey(@, n, <<c>>)]
       \/ /\ "EdgeBack" \in ExtendAnswers(p, c)
          /\ trace' = Extended(p, c, "Edge")
          /\ \E m \in NodeIds(p.kcfg) :
                proof' = [p EXCEPT !.kcfg = CreateEdge(@, c, m, 1),
                                   !.logs = PutKey(@, m, <<c>>)]
       \/ /\ "stuck" \in ExtendAnswers(p, c)
          /\ proof' = [p EXCEPT !.kcfg = AddStuck(@, c)]
          /\ trace' = Extended(p, c, "stuck")
       \/ /\ "nothing" \in ExtendAnswers(p, c)
          /\ proof' = p
          /\ trace' = Extended(p, c, "nothing")
       \/ /\ "Split" \in ExtendAnswers(p, c)
          /\ Room(p, 2)
          /\ proof' = [p EXCEPT !.kcfg = SplitOnConstraints(@, c)]
          /\ trace' = Extended(p, c, "Split")
       \/ /\ "NDBranch" \in ExtendAnswers(p, c)
          /\ Room(p, 2)
          /\ trace' = Extended(p, c, "NDBranch")
          /\ \E c1, c2 \in Contents(p, c) :
                LET n == Len(p.kcfg.nodes)
                IN proof' = [p EXCEPT !.kcfg =
                       CreateNDBranch(CreateNode(CreateNode(@, c1), c2), c,
                                      <<n + 1, n + 2>>)]
    /\ memo' = memo

\* the body of the loop without the continue after a successful subsumption
\* check: the terminal check runs on the subsumed node as well
BaseIteration_FallThrough(p) ==
    LET c == CurrNode(p)
    IN \/ /\ TRUE \in ImpliesAnswers(p, c)
          /\ TRUE \in TerminalAnswers(p, c)
          /\ Len(p.terminal_nodes) < MaxMarks
          /\ proof' = [p EXCEPT !.kcfg = CreateCover(@, c, p.target),
                                !.terminal_nodes = Append(@, Resolve(p.kcfg, c))]
          /\ memo' = memo
          /\ trace' = Passed(c, 0) \o <<Returned("_check_subsume", c, "True", None),
                                         Returned("_check_terminal", c, "True", None)>>
       \/ CheckTerminal(p, c)
       \/ CheckAbstract(p, c)
       \/ ExtractBranches(p, c)
       \/ Extend(p, c)

\* the body of the loop of APRProver.advance_proof on the current node: the
\* first of the five steps that applies
BaseIteration(p) ==
    LET c == CurrNode(p)
    IN \/ CheckSubsume(p, c)
       \/ CheckTerminal(p, c)
       \/ CheckAbstract(p, c)
       \/ ExtractBranches(p, c)
       \/ Extend(p, c)

----------------------------------------------------------------------------
(* advance_proof *)

Budgets == (1..MaxBudget) \cup {NoBudget}

\* the budget test with < for <=: one pass more than the budget
BudgetReached_Late == run.max_iterations # NoBudget /\ run.max_iterations < run.iterations

\* max_iterations is not None and max_iterations <= iterations
BudgetReached == run.max_iterations # NoBudget /\ run.max_iterations <= run.iterations

\* a call of advance_proof(max_iterations = k) starts
AdvanceProof ==
    /\ pc = "idle"
    /\ \E k \in Budgets :
          run' = [max_iterations |-> k, iterations |-> 0]
    /\ pc' = "loop"
    /\ trace' = <<>>
    /\ UNCHANGED <<proof, substatus, checked, memo, world, disk, restored, kompiled, answer, invoked>>

\* APRProver.advance_proof: one pass of the loop body
APRIteration ==
    /\ pc = "loop"
    /\ ~IsBMC(proof)
    /\ pending(proof) # {}
    /\ ~BudgetReached
    /\ world = "stall" => run.iterations < MaxPasses
    /\ disk' = write_proof(proof, disk)
    /\ run' = [run EXCEPT !.iterations = @ + 1]
    /\ BaseIteration(proof)
    /\ UNCHANGED <<substatus, pc, checked, world, restored, kompiled, answer, invoked>>

\* a pass of APRBMCProver.advance_proof that delegates to the base prover
\* only when its bookkeeping marked nothing
BMCIteration_BookkeepOrStep ==
    /\ pc = "loop"
    /\ IsBMC(proof)
    /\ pending(proof) # {}
    /\ ~BudgetReached
    /\ \A f \in pending(proof) \ checked : shortest_path_to(proof, f) # NoPath
    /\ run' = [run EXCEPT !.iterations = @ + 1]
    /\ checked' = checked \cup pending(proof)
    /\ LET p1 == Bookkeep(proof, checked)
       IN IF pending(p1) = {} \/ p1 # proof
          THEN proof' = p1 /\ memo' = memo /\ trace' = Bookkept
          ELSE BaseIteration(p1)
    /\ disk' = write_proof(proof', disk)
    /\ UNCHANGED <<substatus, pc, world, restored, kompiled, answer, invoked>>

\* APRBMCProver.advance_proof: one pass of the loop body, the bookkeeping
\* and then the base prover with max_iterations = 1
BMCIteration ==
    /\ pc = "loop"
    /\ IsBMC(proof)
    /\ pending(proof) # {}
    /\ ~BudgetReached
    /\ \A f \in pending(proof) \ checked : shortest_path_to(proof, f) # NoPath
    /\ run' = [run EXCEPT !.iterations = @ + 1]
    /\ checked' = checked \cup pending(proof)
    /\ LET p1 == Bookkeep(proof, checked)
       IN IF pending(p1) = {}
          THEN proof' = p1 /\ memo' = memo /\ trace' = Bookkept
          ELSE BaseIteration(p1)
    /\ disk' = write_proof(proof', disk)
    /\ UNCHANGED <<substatus, pc, world, restored, kompiled, answer, invoked>>

\* the loop ends: no pending leaf, or the budget is reached
LoopExit ==
    /\ pc = "loop"
    /\ pending(proof) = {} \/ BudgetReached
    /\ disk' = write_proof(proof, disk)
    /\ pc' = "idle"
    /\ run' = NoRun
    /\ trace' = <<>>
    /\ UNCHANGED <<proof, substatus, checked, memo, world, restored, kompiled, answer, invoked>>

----------------------------------------------------------------------------
(* Node refutation *)

RECURSIVE Reverse(_)
Reverse(s) == IF s = <<>> THEN <<>> ELSE Reverse(Tail(s)) \o <<Head(s)>>

\* construct_node_refutation without the test for an NDBranch: the nearest
\* branch is taken for a Split whatever it is
construct_node_refutation_AnyBranch(p, n) ==
    LET paths == PathsBetween(p.kcfg, p.init, n)
    IN IF Len(paths) # 1 THEN [tag |-> "ValueError"]
       ELSE LET branches_on_path ==
                    SelectSeq(Reverse(paths[1]),
                              LAMBDA x : x.kind \in {"Split", "NDBranch"})
            IN IF Len(branches_on_path) = 0 THEN [tag |-> None]
               ELSE LET closest_branch == branches_on_path[1]
                        csubst == closest_branch.csubsts[1]
                    IN IF FALSE THEN [tag |-> None]
                       ELSE IF csubst.subst > 0 THEN [tag |-> None]
                       ELSE IF csubst.constraints > 1 THEN [tag |-> None]
                       ELSE IF csubst.constraints = 0 THEN [tag |-> "IndexError"]
                       ELSE [tag |-> "RefutationProof",
                             id |-> get_refutation_id(p, n)]

\* APRProver.construct_node_refutation: the id of the RefutationProof it
\* builds, None when it gives up, or the exception that escapes it
construct_node_refutation(p, n) ==
    LET paths == PathsBetween(p.kcfg, p.init, n)
    IN IF Len(paths) # 1 THEN [tag |-> "ValueError"]
       ELSE LET branches_on_path ==
                    SelectSeq(Reverse(paths[1]),
                              LAMBDA x : x.kind \in {"Split", "NDBranch"})
            IN IF Len(branches_on_path) = 0 THEN [tag |-> None]
               ELSE LET closest_branch == branches_on_path[1]
                        csubst == closest_branch.csubsts[1]
                    IN IF closest_branch.kind = "NDBranch" THEN [tag |-> None]
                       ELSE IF csubst.subst > 0 THEN [tag |-> None]
                       ELSE IF csubst.constraints > 1 THEN [tag |-> None]
                       ELSE IF csubst.constraints = 0 THEN [tag |-> "IndexError"]
                       ELSE [tag |-> "RefutationProof",
                             id |-> get_refutation_id(p, n)]


\* the proof after refute_node(n): add_subproof in construct_node_refutation
\* and the entry of node_refutations, when a RefutationProof is built
refute_node(p, n) ==
    LET r == construct_node_refutation(p, n)
    IN IF r.tag = "RefutationProof"
       THEN [p EXCEPT !.subproof_ids = @ \cup {r.id},
                      !.node_refutations = PutKey(@, n, r.id)]
       ELSE p

\* the variant of unrefute_node that leaves the sub-proof registered
unrefute_node_KeepsSubproof(p, n) ==
    IF n \in DOMAIN p.node_refutations
    THEN [p EXCEPT !.node_refutations = DropKey(@, n)]
    ELSE p

\* the proof after unrefute_node(n): remove_subproof of the refutation id
\* and del node_refutations[n]
unrefute_node(p, n) ==
    IF n \in DOMAIN p.node_refutations
    THEN [p EXCEPT !.subproof_ids = @ \ {get_refutation_id(p, n)},
                   !.node_refutations = DropKey(@, n)]
    ELSE p

\* APRProver.refute_node
RefuteNode(n) ==
    /\ pc = "idle"
    /\ n \in NodeIds(proof.kcfg)
    /\ LET r == construct_node_refutation(proof, n)
       IN IF r.tag = "RefutationProof"
          THEN /\ substatus' = PutKey(substatus, r.id, PENDING)
               /\ proof' = refute_node(proof, n)
               /\ disk' = write_proof(proof', disk)
          ELSE UNCHANGED <<proof, substatus, disk>>
    /\ trace' = <<Returned("refute_node", n, construct_node_refutation(proof, n).tag, None)>>
    /\ UNCHANGED <<pc, run, checked, memo, world, restored, kompiled, answer, invoked>>

\* APRProver.unrefute_node: del node_refutations[n] raises KeyError for a
\* node without a refutation
UnrefuteNode(n) ==
    /\ pc = "idle"
    /\ n \in NodeIds(proof.kcfg)
    /\ IF n \in DOMAIN proof.node_refutations
       THEN /\ proof' = unrefute_node(proof, n)
            /\ substatus' = DropKey(substatus, get_refutation_id(proof, n))
            /\ trace' = <<Returned("unrefute_node", n, None, None)>>
       ELSE /\ UNCHANGED <<proof, substatus>>
            /\ trace' = <<Returned("unrefute_node", n, "KeyError", None)>>
    /\ UNCHANGED <<pc, run, checked, memo, world, disk, restored, kompiled, answer, invoked>>

\* the external solver settles a refutation sub-proof: PASSED when the
\* constraints are unsatisfiable, FAILED otherwise
SolveSubproof ==
    /\ pc = "idle"
    /\ \E i \in DOMAIN substatus :
          /\ substatus[i] = PENDING
          /\ \E v \in {PASSED, FAILED} :
                substatus' = [substatus EXCEPT ![i] = v]
    /\ trace' = <<>>
    /\ UNCHANGED <<proof, pc, run, checked, memo, world, disk, restored, kompiled, answer, invoked>>

----------------------------------------------------------------------------
(* Markings *)

\* APRProof.add_terminal
AddTerminal(n) ==
    /\ pc = "idle"
    /\ n \in NodeIds(proof.kcfg)
    /\ Len(proof.terminal_nodes) < MaxMarks
    /\ proof' = [proof EXCEPT !.terminal_nodes = Append(@, Resolve(proof.kcfg, n))]
    /\ trace' = <<>>
    /\ UNCHANGED <<substatus, pc, run, checked, memo, world, disk, restored, kompiled, answer, invoked>>

\* APRProof.remove_terminal: list.remove raises when the node is not marked
RemoveTerminal(n) ==
    /\ pc = "idle"
    /\ n \in NodeIds(proof.kcfg)
    /\ IF Resolve(proof.kcfg, n) \in Range(proof.terminal_nodes)
       THEN proof' = [proof EXCEPT
                   !.terminal_nodes = RemoveFirst(@, Resolve(proof.kcfg, n))]
       ELSE UNCHANGED proof
    /\ trace' = <<>>
    /\ UNCHANGED <<substatus, pc, run, checked, memo, world, disk, restored, kompiled, answer, invoked>>

\* APRBMCProof.add_bounded
AddBounded(n) ==
    /\ pc = "idle"
    /\ IsBMC(proof)
    /\ n \in NodeIds(proof.kcfg)
    /\ Len(proof.bounded_nodes) < MaxMarks
    /\ proof' = [proof EXCEPT !.bounded_nodes = Append(@, Resolve(proof.kcfg, n))]
    /\ trace' = <<>>
    /\ UNCHANGED <<substatus, pc, run, checked, memo, world, disk, restored, kompiled, answer, invoked>>

\* the caller takes the bounded mark off the leaf n again: APRBMCProof has
\* add_bounded only, so the call of remove_bounded raises AttributeError
\* and the mark stays
RemoveBounded(n) ==
    /\ pc = "idle"
    /\ IsBMC(proof)
    /\ is_bounded(proof, n)
    /\ trace' = <<Returned("remove_bounded", n, "AttributeError", None)>>
    /\ UNCHANGED <<proof, substatus, pc, run, checked, memo, world, disk, restored, kompiled, answer, invoked>>

----------------------------------------------------------------------------
(* Restoring a proof from its persisted record *)

\* the record dict writes for p with one more node_refutations entry, for
\* the leaf n, naming a sub-proof that is not among the subproof_ids
DanglingRecord(p, n) ==
    [dict(p) EXCEPT !.node_refutations.entries =
                        PutKey(@, n, get_refutation_id(p, n))]

\* the records read back: the one dict writes for the proof, and that
\* record with a node_refutations entry added by hand
Records(p) ==
    {dict(p)} \cup {DanglingRecord(p, n) :
                        n \in Leaves(p.kcfg) \ DOMAIN p.node_refutations}

\* from_dict on a record: what it returns or raises is kept with the record
FromDict(dct) ==
    /\ pc = "idle"
    /\ restored' = [type |-> "Restored", record |-> dct,
                    result |-> from_dict(dct, proof.proof_dir)]
    /\ pc' = "restored"
    /\ trace' = <<>>
    /\ UNCHANGED <<proof, substatus, run, checked, memo, world, disk, kompiled, answer, invoked>>

----------------------------------------------------------------------------
(* Path constraints                                                        *)
(*                                                                         *)
(* A constraint is the sequence of its conjuncts (mlAnd leaves out #Top    *)
(* and flatten_label lays the conjunction out); #Top is the empty          *)
(* sequence.  A conjunct is known by the successor it comes from (source   *)
(* and target), by whether it is a binding of the substitution (ml_pred)   *)
(* or a constraint, by its place there, and by the Covers (their sources)  *)
(* whose substitutions were applied to it, in the order of application.    *)

Conjunct(s, part, k) == [source |-> s.source, target |-> s.targets[1], part |-> part, k |-> k, under |-> <<>>]

\* csubst.subst.ml_pred: one equality for each binding
ml_pred(s) == <<>> \o [k \in 1..s.csubsts[1].subst |-> Conjunct(s, "subst", k)]

\* csubst.constraint: the conjunction of the constraints
constraint(s) == <<>> \o [k \in 1..s.csubsts[1].constraints |-> Conjunct(s, "constraint", k)]

\* csubst.subst.apply(term): a substitution without bindings changes nothing
SubstApply(s, term) ==
    IF s.csubsts[1].subst = 0 THEN term
    ELSE <<>> \o [i \in DOMAIN term |-> [term[i] EXCEPT !.under = Append(@, s.source)]]

\* the loop of path_constraints over reversed(path), the substitution of a
\* Cover left unapplied
RECURSIVE Accumulated_NoSubst(_)
Accumulated_NoSubst(path) ==
    IF path = <<>> THEN <<>>
    ELSE LET edge == Head(path)
             curr_constraint == Accumulated_NoSubst(Tail(path))
         IN IF edge.kind = "Split" THEN ml_pred(edge) \o constraint(edge) \o curr_constraint
            ELSE IF edge.kind = "Cover" THEN constraint(edge) \o curr_constraint
            ELSE curr_constraint

\* the loop of path_constraints over reversed(path): what is accumulated
\* when the loop has come to the head of path
RECURSIVE Accumulated(_)
Accumulated(path) ==
    IF path = <<>> THEN <<>>
    ELSE LET edge == Head(path)
             curr_constraint == Accumulated(Tail(path))
         IN IF edge.kind = "Split" THEN ml_pred(edge) \o constraint(edge) \o curr_constraint
            ELSE IF edge.kind = "Cover" THEN constraint(edge) \o SubstApply(edge, curr_constraint)
            ELSE curr_constraint

\* APRProof.path_constraints; shortest_path_to asserts that there is a path
path_constraints(p, n) ==
    LET path == shortest_path_to(p, n)
    IN IF path = NoPath THEN [tag |-> "AssertionError"]
       ELSE [tag |-> "constraint", conjuncts |-> Accumulated(path)]

\* a call of path_constraints
PathConstraints(n) ==
    /\ pc = "idle"
    /\ n \in NodeIds(proof.kcfg)
    /\ trace' = <<Returned("path_constraints", n, path_constraints(proof, n), None)>>
    /\ UNCHANGED <<proof, substatus, pc, run, checked, memo, world, disk, restored, kompiled, answer, invoked>>

----------------------------------------------------------------------------
(* The sort lattice of a kompiled definition (KompiledKore)                *)
(*                                                                         *)
(* A sort (SortApp without parameters) is modelled by its name.  Of the    *)
(* definition the model keeps the pairs <<subsort, supersort>> of the      *)
(* subsort attributes of its axioms.  The definition's own sort inference  *)
(* (Definition.pattern_sorts, Definition.infer_sort) is not part of the    *)
(* listed sources and is modelled from the specification document: a       *)
(* symbol declares the sorts of its arguments and the sort of its result.  *)

\* an optional argument: None or a value
Absent == [tag |-> "None"]
Some(value) == [tag |-> "Some", value |-> value]

\* SortApp('SortK'), the top sort
SortK == "SortK"

SortNames == <<"SortKItem", "SortExp", "SortVal", "SortInt", "SortBool", "SortId", "SortStmt", "SortPgm">>

\* the sorts a definition declares besides the top sort
UserSorts == {SortNames[i] : i \in 1..MaxSorts}

Sorts == {SortK} \cup UserSorts

\* the place of a sort in the order of declaration
SortIndex(s) == CHOOSE i \in 1..Len(SortNames) : SortNames[i] = s

\* the subsort facts a definition may declare: any facts between the first
\* MaxCyclicSorts sorts, or facts between all sorts in which a subsort is
\* declared after its supersorts (every acyclic set of facts, up to the
\* names of the sorts)
CyclicFacts == {<<a, b>> \in UserSorts \X UserSorts : a # b /\ SortIndex(a) <= MaxCyclicSorts /\ SortIndex(b) <= MaxCyclicSorts}

OrderedFacts == {<<a, b>> \in UserSorts \X UserSorts : SortIndex(a) > SortIndex(b)}

Definitions == (SUBSET CyclicFacts) \cup (SUBSET OrderedFacts)

\* KompiledKore._subsort_table: supersort -> the subsorts declared for it
subsort_table(facts) == [sup \in {f[2] : f \in facts} |-> {f[1] : f \in {g \in facts : g[2] = sup}}]

\* dict.get(sort, empty)
TableGet(table, sort) == IF sort \in DOMAIN table THEN table[sort] ELSE {}

\* is_subsort that takes the top sort for a subsort of every sort
is_subsort_TopBelow(facts, sort1, sort2) ==
    IF sort1 = sort2 THEN TRUE
    ELSE IF sort2 = SortK \/ sort1 = SortK THEN TRUE
    ELSE sort1 \in TableGet(subsort_table(facts), sort2)

\* KompiledKore.is_subsort
is_subsort(facts, sort1, sort2) ==
    IF sort1 = sort2 THEN TRUE
    ELSE IF sort2 = SortK THEN TRUE
    ELSE IF sort1 = SortK THEN FALSE
    ELSE sort1 \in TableGet(subsort_table(facts), sort2)

\* what a call returns or raises
ReturnedBool(b) == [tag |-> "bool", value |-> b]
ReturnedSort(s) == [tag |-> "sort", sort |-> s]
Raised(type, message, names) == [tag |-> type, message |-> message, names |-> names]

\* meet_sorts that looks for the result among the subsorts of the first sort
meet_sorts_NoIntersection(facts, sort1, sort2) ==
    IF is_subsort(facts, sort1, sort2) THEN ReturnedSort(sort1)
    ELSE IF is_subsort(facts, sort2, sort1) THEN ReturnedSort(sort2)
    ELSE LET table == subsort_table(facts)
             common_subsorts == TableGet(table, sort1) \cup {sort1}
             nr_subsorts == [sort \in common_subsorts |-> Cardinality(TableGet(table, sort))]
             max_subsorts == {sort \in common_subsorts : \A other \in common_subsorts : nr_subsorts[other] <= nr_subsorts[sort]}
         IN IF common_subsorts = {}
            THEN Raised("ValueError", "Sorts have no common subsort", <<sort1, sort2>>)
            ELSE IF Cardinality(max_subsorts) # 1
            THEN Raised("ValueError", "too many values to unpack", <<>>)
            ELSE ReturnedSort(CHOOSE sort \in max_subsorts : TRUE)

\* KompiledKore.meet_sorts
meet_sorts(facts, sort1, sort2) ==
    IF is_subsort(facts, sort1, sort2) THEN ReturnedSort(sort1)
    ELSE IF is_subsort(facts, sort2, sort1) THEN ReturnedSort(sort2)
    ELSE LET table == subsort_table(facts)
             common_subsorts == (TableGet(table, sort1) \cup {sort1}) \cap (TableGet(table, sort2) \cup {sort2})
             nr_subsorts == [sort \in common_subsorts |-> Cardinality(TableGet(table, sort))]
             max_subsorts == {sort \in common_subsorts : \A other \in common_subsorts : nr_subsorts[other] <= nr_subsorts[sort]}
         IN IF common_subsorts = {}
            THEN Raised("ValueError", "Sorts have no common subsort", <<sort1, sort2>>)
            ELSE IF Cardinality(max_subsorts) # 1
            THEN Raised("ValueError", "too many values to unpack", <<>>)
            ELSE ReturnedSort(CHOOSE sort \in max_subsorts : TRUE)

\* no call was made on the KompiledKore object
NoAnswer == [call |-> "none"]

\* a call of is_subsort
IsSubsort(sort1, sort2) ==
    /\ answer' = [call |-> "is_subsort", args |-> <<sort1, sort2>>,
                  result |-> ReturnedBool(is_subsort(kompiled, sort1, sort2))]
    /\ UNCHANGED <<proof, substatus, pc, run, checked, memo, world, disk, restored, trace, kompiled, invoked>>

\* a call of meet_sorts
MeetSorts(sort1, sort2) ==
    /\ answer' = [call |-> "meet_sorts", args |-> <<sort1, sort2>>,
                  result |-> meet_sorts(kompiled, sort1, sort2)]
    /\ UNCHANGED <<proof, substatus, pc, run, checked, memo, world, disk, restored, trace, kompiled, invoked>>

\* the sorts of the terms given to add_injections
TermSorts == {SortK} \cup {SortNames[i] : i \in 1..MaxTermSorts}

\* a variable of a sort
EVar(sort) == [kind |-> "EVar", sort |-> sort]

\* a symbol with the sorts it declares for its arguments and its result
Symbol(params, sort) == [name |-> "f", params |-> params, sort |-> sort]

\* the injection symbol inj{actual, required}
InjSymbol(actual, required) == [name |-> "inj", params |-> <<actual>>, sort |-> required]

\* App(symbol, sorts, args)
App(symbol, sorts, args) == [kind |-> "App", symbol |-> symbol, sorts |-> sorts, args |-> args]

\* the terms of depth up to d
RECURSIVE Terms(_)
Terms(d) ==
    IF d = 0 THEN {EVar(s) : s \in TermSorts}
    ELSE LET sub == Terms(d - 1)
         IN sub \cup UNION {{App(Symbol(<<>> \o ps, s), <<>>, <<>> \o as) : ps \in [1..k -> TermSorts], s \in TermSorts, as \in [1..k -> sub]} : k \in 1..MaxArity}

Patterns == Terms(MaxTermDepth)

\* Pattern.patterns
patterns(pattern) == IF pattern.kind = "App" THEN pattern.args ELSE <<>>

\* Pattern.let_patterns
let_patterns(pattern, ps) == IF pattern.kind = "App" THEN [pattern EXCEPT !.args = ps] ELSE pattern

\* Definition.pattern_sorts: the sorts the symbol declares for its arguments
pattern_sorts(pattern) == IF pattern.kind = "App" THEN pattern.symbol.params ELSE <<>>

\* Definition.infer_sort
infer_sort(pattern) == IF pattern.kind = "App" THEN pattern.symbol.sort ELSE pattern.sort

ReturnedPattern(pattern) == [tag |-> "pattern", pattern |-> pattern]

\* KompiledKore._inject
inject(facts, pattern, sort) ==
    LET actual_sort == infer_sort(pattern)
    IN IF actual_sort = sort THEN ReturnedPattern(pattern)
       ELSE IF is_subsort(facts, actual_sort, sort)
       THEN ReturnedPattern(App(InjSymbol(actual_sort, sort), <<actual_sort, sort>>, <<pattern>>))
       ELSE Raised("ValueError", "is not a subsort of", <<actual_sort, sort>>)

\* KompiledKore.add_injections; the error of the first child that fails is
\* the error of the call
RECURSIVE add_injections(_, _, _)
add_injections(facts, pattern, sort) ==
    LET required == IF sort = Absent THEN SortK ELSE sort.value
        children == patterns(pattern)
        sorts == pattern_sorts(pattern)
        n == IF Len(children) < Len(sorts) THEN Len(children) ELSE Len(sorts)
        results == <<>> \o [i \in 1..n |-> add_injections(facts, children[i], Some(sorts[i]))]
        failed == {i \in 1..n : results[i].tag # "pattern"}
    IN IF failed # {}
       THEN results[CHOOSE i \in failed : \A j \in failed : i <= j]
       ELSE inject(facts, let_patterns(pattern, <<>> \o [i \in 1..n |-> results[i].pattern]), required)

\* a call that has not returned yet
Pending == [tag |-> "pending"]

\* a call of add_injections, on the arguments it was given
AddInjections ==
    /\ answer.call = "add_injections"
    /\ answer.result = Pending
    /\ answer' = [answer EXCEPT !.result = add_injections(kompiled, answer.args[1], answer.args[2])]
    /\ UNCHANGED <<proof, substatus, pc, run, checked, memo, world, disk, restored, trace, kompiled, invoked>>

----------------------------------------------------------------------------
(* The invocation of krun (KRun.run and _krun)                             *)
(*                                                                         *)
(* Of an invocation the model keeps what decides its outcome: the names of *)
(* the configuration variables given, the depth, the exit codes expected,  *)
(* and the exit code of the process.  run_process (pyk/utils.py) is not    *)
(* part of the listed sources: as subprocess.run does, with check it       *)
(* raises CalledProcessError for a non-zero exit code, with the exit code  *)
(* and the captured output.                                                *)

\* the names of the configuration variables of a call
ConfigVars == {"PGM", "X"}

\* the exit codes of a process
ExitCodes == 0..MaxExitCode

\* expect_rc: one code or several codes
OneCode(n) == [tag |-> "int", value |-> n]
Codes(S) == [tag |-> "codes", values |-> S]

\* expect_rc == 0
IsZero(expect_rc) == expect_rc.tag = "int" /\ expect_rc.value = 0

\* what an invocation comes to: started tells whether the krun process was
\* started, rc is its exit code, outcome what the call returned or raised
Failed(started, rc, type, carries) == [started |-> started, rc |-> rc, outcome |-> [tag |-> type, carries |-> carries]]
Completed(rc) == [started |-> TRUE, rc |-> Some(rc), outcome |-> [tag |-> "CompletedProcess", carries |-> {"returncode", "stdout"}]]

\* _krun that tests the depth after the process has run
krun_DepthCheckedLate(depth, check, rc) ==
    IF check /\ rc # 0
    THEN Failed(TRUE, Some(rc), "RuntimeError", {"actual", "stdout", "stderr"})
    ELSE IF depth.tag = "Some" /\ depth.value # 0 /\ depth.value < 0
    THEN Failed(TRUE, Some(rc), "ValueError", {"depth"})
    ELSE Completed(rc)

\* _krun, for a process that exits with rc once started
krun(depth, check, rc) ==
    IF depth.tag = "Some" /\ depth.value # 0 /\ depth.value < 0
    THEN Failed(FALSE, Absent, "ValueError", {"depth"})
    ELSE IF check /\ rc # 0
    THEN Failed(TRUE, Some(rc), "RuntimeError", {"actual", "stdout", "stderr"})
    ELSE Completed(rc)

\* KRun._check_return_code: TRUE if it returns, FALSE if it raises
check_return_code(actual, expected) ==
    LET codes == IF expected.tag = "int" THEN {expected.value} ELSE expected.values
    IN actual \in codes

\* KRun.run, for a process that exits with rc once started
KRun_run(config, depth, expect_rc, rc) ==
    IF config.tag = "Some" /\ "PGM" \in config.value
    THEN Failed(FALSE, Absent, "ValueError", {"PGM"})
    ELSE LET result == krun(depth, IsZero(expect_rc), rc)
         IN IF result.outcome.tag # "CompletedProcess" THEN result
            ELSE IF ~check_return_code(rc, expect_rc)
            THEN Failed(TRUE, Some(rc), "RuntimeError", {"expected", "actual"})
            ELSE [started |-> TRUE, rc |-> Some(rc), outcome |-> [tag |-> "CTerm", carries |-> {"stdout"}]]

\* no invocation was made
NoKrun == [call |-> "none"]

Configs == {Absent} \cup {Some(S) : S \in SUBSET ConfigVars}
Depths == {Absent} \cup {Some(d) : d \in (0 - MaxDepth)..MaxDepth}
ExpectRcs == {OneCode(n) : n \in ExitCodes} \cup {Codes(S) : S \in (SUBSET ExitCodes) \ {{}}}

\* a call of KRun.run
Run(config, depth, expect_rc) ==
    /\ \E rc \in ExitCodes :
          LET result == KRun_run(config, depth, expect_rc, rc)
          IN /\ result.started => result.rc = Some(rc)
             /\ invoked' = [call |-> "run", config |-> config, depth |-> depth, expect_rc |-> expect_rc, result |-> result]
    /\ UNCHANGED <<proof, substatus, pc, run, checked, memo, world, disk, restored, trace, kompiled, answer>>

\* a call of _krun
Krun(depth, check) ==
    /\ \E rc \in ExitCodes :
          invoked' = [call |-> "_krun", depth |-> depth, check |-> check, result |-> krun(depth, check, rc)]
    /\ UNCHANGED <<proof, substatus, pc, run, checked, memo, world, disk, restored, trace, kompiled, answer>>

----------------------------------------------------------------------------
(* The specification *)

\* the state the variables other than proof and world start in
Start ==
    /\ substatus = <<>>
    /\ pc = "idle"
    /\ run = NoRun
    /\ checked = {}
    /\ memo = {}
    /\ disk = NoRecord
    /\ restored = NoProof
    /\ trace = <<>>
    /\ kompiled = {}
    /\ answer = NoAnswer
    /\ invoked = NoKrun

\* APRProver.advance_proof, as its steps
Prover == AdvanceProof \/ APRIteration \/ LoopExit

\* APRBMCProver.advance_proof, as its steps
BMCProver == AdvanceProof \/ BMCIteration \/ LoopExit

(* Spec: an APRProof made from a claim, proved by an APRProver with any    *)
(* backend and callbacks, while the caller marks and refutes leaves and    *)
(* reads the proof's record back with from_dict.                           *)
Init ==
    /\ proof \in {from_claim(None, a, c) : a \in BOOLEAN, c \in BOOLEAN}
    /\ world = "free"
    /\ Start

Next ==
    \/ Prover
    \/ \E n \in Leaves(proof.kcfg) : AddTerminal(n)
    \/ \E n \in Leaves(proof.kcfg) : RemoveTerminal(n)
    \/ \E n \in Leaves(proof.kcfg) : RefuteNode(n)
    \/ \E n \in Leaves(proof.kcfg) : UnrefuteNode(n)
    \/ SolveSubproof
    \/ \E dct \in Records(proof) : FromDict(dct)

Spec == Init /\ [][Next]_vars

(* SpecBMC: an APRBMCProof made from a claim, proved by an APRBMCProver    *)
(* with any backend and callbacks, while the caller marks pending leaves,  *)
(* refutes leaves and reads the proof's record back with from_dict.        *)
InitBMC ==
    /\ proof \in {from_claim_with_bmc_depth(l, d) :
                     l \in BOOLEAN, d \in 0..MaxBmcDepth}
    /\ world = "free"
    /\ Start

NextBMC ==
    \/ BMCProver
    \/ \E n \in pending(proof) : AddBounded(n)
    \/ \E n \in Leaves(proof.kcfg) : RemoveBounded(n)
    \/ \E n \in pending(proof) : AddTerminal(n)
    \/ \E n \in Leaves(proof.kcfg) : RefuteNode(n)
    \/ SolveSubproof
    \/ \E dct \in Records(proof) : FromDict(dct)

SpecBMC == InitBMC /\ [][NextBMC]_vars

(* SpecLoop: the looping claim of test_goto.py, whose init state is at the *)
(* loop head, proved by an APRBMCProver with the callbacks of the test.    *)
InitLoop ==
    /\ proof \in {from_claim_with_bmc_depth(TRUE, d) : d \in 0..MaxLoopDepth}
    /\ world = "goto"
    /\ Start

SpecLoop == InitLoop /\ [][BMCProver]_vars

(* SpecDisk: an APRProof or an APRBMCProof constructed with a proof_dir,   *)
(* so that write_proof stores its record, proved by its prover with any    *)
(* backend and callbacks while the caller refutes leaves.                  *)
ProofDir == "dir"

InitDisk ==
    /\ proof \in {from_claim(ProofDir, a, c) : a \in BOOLEAN, c \in BOOLEAN}
               \cup {APRBMCProofInit("claim", FromClaimCfg(l), 1, 2, <<>>, d, <<>>, ProofDir, {}, <<>>, FALSE, FALSE) :
                        l \in BOOLEAN, d \in 0..MaxBmcDepth}
    /\ world = "free"
    /\ Start

NextDisk ==
    \/ AdvanceProof
    \/ APRIteration
    \/ BMCIteration
    \/ LoopExit
    \/ \E n \in Leaves(proof.kcfg) : RefuteNode(n)

SpecDisk == InitDisk /\ [][NextDisk]_vars

(* SpecStall: an APRProof proved by an APRProver whose backend may report  *)
(* nothing for the node it is asked to advance.                            *)
InitStall ==
    /\ proof \in {from_claim(None, FALSE, c) : c \in BOOLEAN}
    /\ world = "stall"
    /\ Start

SpecStall == InitStall /\ [][Prover]_vars

(* SpecChain: an APRProof made from a claim whose execution is a linear    *)
(* chain of rewrite steps ending in a state that implies the target,       *)
(* proved by an APRProver without callbacks.  LiveChain adds that the loop *)
(* of advance_proof, once entered, goes on: the prover is single-threaded  *)
(* and each pass and the exit of the loop are taken when they can be.      *)
ChainClaimCfg(left) ==
    [nodes |-> <<ChainContent(left), Content(FALSE, 0)>>, succs |-> <<>>,
     stuck |-> {}, aliases |-> <<>>]

InitChain ==
    /\ proof \in {APRProofInit("claim", ChainClaimCfg(k), 1, 2, <<>>, None, <<>>, <<>>, {}, c, FALSE) :
                     k \in 0..MaxChain, c \in BOOLEAN}
    /\ world = "chain"
    /\ Start

SpecChain == InitChain /\ [][Prover]_vars

LiveChain == SpecChain /\ WF_vars(APRIteration) /\ WF_vars(LoopExit)

\* the prover's variables when the model is not about a proof
NoProver ==
    /\ proof = from_claim(None, FALSE, FALSE)
    /\ world = "free"
    /\ substatus = <<>>
    /\ pc = "idle"
    /\ run = NoRun
    /\ checked = {}
    /\ memo = {}
    /\ disk = NoRecord
    /\ restored = NoProof
    /\ trace = <<>>

(* SpecSorts: a KompiledKore object of a definition with any of the sets   *)
(* of subsort facts of Definitions, asked for the subsorts and the meets   *)
(* of its sorts.                                                           *)
InitSorts ==
    /\ kompiled \in Definitions
    /\ answer = NoAnswer
    /\ invoked = NoKrun
    /\ NoProver

NextSorts ==
    \/ \E sort1 \in Sorts, sort2 \in Sorts : IsSubsort(sort1, sort2)
    \/ \E sort1 \in Sorts, sort2 \in Sorts : MeetSorts(sort1, sort2)

SpecSorts == InitSorts /\ [][NextSorts]_vars

(* SpecInject: a KompiledKore object of a definition with any subsort      *)
(* facts between the sorts of the terms, called to add the injections to   *)
(* any term of Patterns, with any required sort or none.                   *)
InitInject ==
    /\ kompiled \in SUBSET {<<a, b>> \in (TermSorts \ {SortK}) \X (TermSorts \ {SortK}) : a # b}
    /\ answer \in {[call |-> "add_injections", args |-> <<pattern, sort>>, result |-> Pending] :
                      pattern \in Patterns, sort \in {Absent} \cup {Some(s) : s \in TermSorts}}
    /\ invoked = NoKrun
    /\ NoProver

SpecInject == InitInject /\ [][AddInjections]_vars

(* SpecKrun: calls of KRun.run and of _krun with any configuration         *)
(* variables, depth and expected exit codes, the process exiting with any  *)
(* code.                                                                   *)
InitKrun ==
    /\ kompiled = {}
    /\ answer = NoAnswer
    /\ invoked = NoKrun
    /\ NoProver

NextKrun ==
    \/ \E config \in Configs, depth \in Depths, expect_rc \in ExpectRcs : Run(config, depth, expect_rc)
    \/ \E depth \in Depths, check \in BOOLEAN : Krun(depth, check)

SpecKrun == InitKrun /\ [][NextKrun]_vars

(* SpecShape: an APRProof constructed on a graph whose init node was split *)
(* with KCFG.create_split into two leaves, the constrained substitution of *)
(* each branch of any shape, while the caller refutes and unrefutes leaves *)
(* and the solver settles the refutations.                                 *)
Csubsts == [subst : 0..MaxSubst, constraints : 0..MaxConstraints]

SplitCfg(cs) ==
    LET cfg == CreateNode(CreateNode(FromClaimCfg(FALSE), Content(FALSE, 1)), Content(FALSE, 2))
    IN CreateSplit(cfg, 1, <<3, 4>>, cs)

InitShape ==
    /\ proof \in {APRProofInit("claim", SplitCfg(<<c1, c2>>), 1, 2, <<>>, None, <<>>, <<>>, {}, FALSE, FALSE) :
                     c1 \in Csubsts, c2 \in Csubsts}
    /\ world = "free"
    /\ Start

NextShape ==
    \/ \E n \in Leaves(proof.kcfg) : RefuteNode(n)
    \/ \E n \in Leaves(proof.kcfg) : UnrefuteNode(n)
    \/ SolveSubproof

SpecShape == InitShape /\ [][NextShape]_vars

(* SpecPath: an APRProof constructed on the graph of a claim, or on a graph *)
(* in which an Edge, a Cover, a Split, an NDBranch, an Edge and a Cover    *)
(* into the target follow each other, with any constrained substitutions   *)
(* on the branches of the Split and on the Covers, asked for the path      *)
(* constraints of its nodes.                                               *)
PathCfg(cv, cs, ct) ==
    LET nodes == <<>> \o [n \in 1..9 |-> Content(FALSE, IF n \in {5, 6} THEN n - 4 ELSE 0)]
        cfg0 == [nodes |-> nodes, succs |-> <<>>, stuck |-> {}, aliases |-> <<>>]
        cfg1 == CreateEdge(cfg0, 1, 3, 1)
        cfg2 == [cfg1 EXCEPT !.succs = Append(@, [kind |-> "Cover", source |-> 3, targets |-> <<4>>, depth |-> 0, csubsts |-> <<cv>>])]
        cfg3 == CreateSplit(cfg2, 4, <<5, 6>>, cs)
        cfg4 == CreateNDBranch(cfg3, 6, <<7, 8>>)
        cfg5 == CreateEdge(cfg4, 7, 9, 1)
    IN [cfg5 EXCEPT !.succs = Append(@, [kind |-> "Cover", source |-> 9, targets |-> <<2>>, depth |-> 0, csubsts |-> <<ct>>])]

InitPath ==
    /\ proof \in {from_claim(None, FALSE, FALSE)}
                 \cup {APRProofInit("claim", PathCfg(cv, <<c1, c2>>, ct), 1, 2, <<>>, None, <<>>, <<>>, {}, FALSE, FALSE) :
                          cv \in Csubsts, c1 \in Csubsts, c2 \in Csubsts, ct \in Csubsts}
    /\ world = "free"
    /\ Start

NextPath == \E n \in NodeIds(proof.kcfg) : PathConstraints(n)

SpecPath == InitPath /\ [][NextPath]_vars

----------------------------------------------------------------------------
(* Properties *)

\* the number of entries of a tuple of booleans that hold
Count(bs) == Cardinality({i \in DOMAIN bs : bs[i]})

\* a sub-proof of p has the status v
AnySubproof(p, st, v) == \E i \in p.subproof_ids : st[i] = v

\* the categories of a leaf: init, target, refuted, terminal, bounded,
\* stuck, pending
Categories(p, n) ==
    <<is_init(p, n), is_target(p, n), is_refuted(p, n), is_terminal(p, n),
      IsBMC(p) /\ is_bounded(p, n), IsStuck(p.kcfg, n), is_pending(p, n)>>

\* the mark that takes a leaf out of pending and failing: bounded in an
\* APRBMCProof, refuted in an APRProof
Excluded(p, n) == IF IsBMC(p) THEN is_bounded(p, n) ELSE is_refuted(p, n)

C2_StatusDerivation ==
    status(proof, substatus) =
        IF proof.admitted THEN PASSED
        ELSE IF \/ failing(proof) # {}
                \/ AnySubproof(proof, substatus, FAILED) THEN FAILED
        ELSE IF \/ pending(proof) # {}
                \/ AnySubproof(proof, substatus, PENDING) THEN PENDING
        ELSE PASSED

\* a proof that is not admitted with a failing and a pending leaf
C2_Witness ==
    /\ ~proof.admitted
    /\ failing(proof) # {}
    /\ pending(proof) # {}
    /\ status(proof, substatus) = FAILED

\* C3 as stated: status is PASSED iff no leaf is failing, no sub-proof is
\* FAILED, and no leaf is pending unless the proof is admitted.
C3_PassedIff ==
    status(proof, substatus) = PASSED <=>
        /\ failing(proof) = {}
        /\ ~AnySubproof(proof, substatus, FAILED)
        /\ pending(proof) = {} \/ proof.admitted

\* C3, amended: status is PASSED iff the proof is admitted, or no leaf is
\* failing or pending and no sub-proof is FAILED or PENDING.
C3_PassedIffAdmittedOrClosed ==
    status(proof, substatus) = PASSED <=>
        \/ proof.admitted
        \/ /\ failing(proof) = {}
           /\ pending(proof) = {}
           /\ ~AnySubproof(proof, substatus, FAILED)
           /\ ~AnySubproof(proof, substatus, PENDING)

\* a proof that is not admitted and PASSED with a refuted leaf
C3_Witness ==
    /\ ~proof.admitted
    /\ proof.subproof_ids # {}
    /\ status(proof, substatus) = PASSED

\* C4: from_dict of the record dict writes for an APRProof gives a proof
\* equal to it, node refutations included.
C4_RoundTrip ==
    (/\ pc = "restored"
     /\ ~IsBMC(proof)
     /\ restored.record = APRProof_dict(proof))
        => restored.result = proof

\* C5: from_dict of the record dict writes for an APRBMCProof gives a proof
\* equal to it in every field, with the same pending and failing leaves and
\* the same status.
C5_RoundTripBMC ==
    (/\ pc = "restored"
     /\ IsBMC(proof)
     /\ restored.record = APRBMCProof_dict(proof))
        => /\ IsProof(restored.result)
           /\ restored.result = proof
           /\ pending(restored.result) = pending(proof)
           /\ failing(restored.result) = failing(proof)
           /\ status(restored.result, substatus) = status(proof, substatus)

\* the record has a node_refutations entry whose sub-proof id is not among
\* its subproof_ids
Dangling(dct) ==
    \E n \in DOMAIN dct.node_refutations.entries :
        dct.node_refutations.entries[n] \notin dct.subproof_ids

\* C6: from_dict of a record with a dangling node_refutations entry raises;
\* no proof is returned.
C6_DanglingRejected ==
    (pc = "restored" /\ Dangling(restored.record))
        => IsError(restored.result)

\* C7: in an APRProof a refuted leaf is neither pending nor failing, and is
\* not the node the prover handles next.
C7_RefutedExcluded ==
    ~IsBMC(proof) =>
        \A n \in Leaves(proof.kcfg) :
            is_refuted(proof, n) =>
                /\ ~is_pending(proof, n)
                /\ ~is_failing(proof, n)
                /\ pending(proof) # {} => CurrNode(proof) # n

\* a refuted leaf that a Split leads into, while another leaf is pending
C7_Witness ==
    \E n \in Leaves(proof.kcfg) :
        /\ is_refuted(proof, n)
        /\ SplitsInto(proof.kcfg, n) # {}
        /\ pending(proof) # {}

\* C8: in an APRBMCProof a refuted leaf is neither pending nor failing.
C8_RefutedExcludedBMC ==
    IsBMC(proof) =>
        \A n \in Leaves(proof.kcfg) :
            is_refuted(proof, n) =>
                ~is_pending(proof, n) /\ ~is_failing(proof, n)

\* C9 as stated: with bmc_depth = 3, once no leaf is pending exactly one
\* leaf is bounded and the status is FAILED.
C9_BoundedFails ==
    (proof.bmc_depth = 3 /\ pending(proof) = {}) =>
        /\ Cardinality(bounded(proof)) = 1
        /\ status(proof, substatus) = FAILED

\* C9, amended: with bmc_depth = 3 a bounded leaf has 4 prior visits of the
\* loop head on its path and is not failing; once no leaf is pending
\* exactly one leaf is bounded and the status is PASSED.
C9_BoundedPasses ==
    proof.bmc_depth = 3 =>
        /\ \A b \in bounded(proof) :
              Len(PriorLoops(proof, b)) = 4 /\ ~is_failing(proof, b)
        /\ pending(proof) = {} =>
              /\ Cardinality(bounded(proof)) = 1
              /\ status(proof, substatus) = PASSED

\* the run with bmc_depth = 3 has ended with a bounded leaf
C9_Witness ==
    /\ proof.bmc_depth = 3
    /\ pc = "idle"
    /\ pending(proof) = {}
    /\ bounded(proof) # {}

\* leaf_number of test_goto.py
leaf_number(p) ==
    Cardinality({n \in Leaves(p.kcfg) : ~is_target(p, n)})
        + Cardinality(PredecessorsOf(p.kcfg, p.target))

\* the budget of the test's run
TestBudget == 20

\* C10: the leaves the loop bound cuts off are bounded and neither pending
\* nor failing; a proof whose leaves are all target or bounded, with no
\* failing or pending sub-proof, is PASSED; the run of the test (bmc_depth
\* 1, 20 iterations) ends with no pending leaf, PASSED, with 3 leaves.
C10_BoundedNotFailing ==
    /\ \A n \in bounded(proof) :
          ~is_pending(proof, n) /\ ~is_failing(proof, n)
    /\ (/\ \A n \in Leaves(proof.kcfg) :
              is_target(proof, n) \/ is_bounded(proof, n)
        /\ SubproofsStatus(proof, substatus) = PASSED)
          => status(proof, substatus) = PASSED
    /\ proof.bmc_depth = 1 =>
          /\ run.iterations <= TestBudget
          /\ pending(proof) = {} =>
                /\ bounded(proof) # {}
                /\ status(proof, substatus) = PASSED
                /\ leaf_number(proof) = 3

\* the run with bmc_depth = 1 has ended with a bounded leaf
C10_Witness ==
    /\ proof.bmc_depth = 1
    /\ pc = "idle"
    /\ pending(proof) = {}
    /\ bounded(proof) # {}
    /\ failing(proof) = {}

----------------------------------------------------------------------------
(* The prover's loop *)

\* the step is a pass of the loop body of APRProver.advance_proof
IsPass == pc = "loop" /\ run'.iterations = run.iterations + 1

\* the steps of a pass in their priority order
StepOrder == <<"_check_subsume", "_check_terminal", "_check_abstract", "_extract_branches", "extend">>

\* the place of a step in the priority order
Rank(step) == CHOOSE i \in DOMAIN StepOrder : StepOrder[i] = step

\* the step that acted in the pass: the last one called
Acted == trace'[Len(trace')]

\* the Cover the subsumption step adds
TargetCover(p, c) == [kind |-> "Cover", source |-> c, targets |-> <<p.target>>, depth |-> 0, csubsts |-> <<NoCsubst>>]

\* C11: in a pass of APRProver.advance_proof the steps are called on the
\* current node in the fixed order subsumption, terminal check, abstraction,
\* branch heuristic, backend step, and exactly one of them acts, the last
\* one called, all before it having returned False; when subsumption
\* succeeds the only change is a Cover current -> target; when the terminal
\* predicate holds the only change is the terminal mark; and whenever the
\* proof changes otherwise the subsumption check on the node has failed in
\* that pass.
C11_OneStepInOrder ==
    [][IsPass =>
        LET c == CurrNode(proof)
        IN /\ trace' # <<>>
           /\ \A i \in DOMAIN trace' : trace'[i].node = c
           /\ \A i, j \in DOMAIN trace' :
                 i < j => Rank(trace'[i].step) < Rank(trace'[j].step)
           /\ \A i \in 1..(Len(trace') - 1) : trace'[i].result = "False"
           /\ Acted.result # "False"
           /\ trace'[1].step = "_check_subsume"
           /\ trace'[1].result = "True" =>
                 proof' = [proof EXCEPT !.kcfg.succs = Append(@, TargetCover(proof, c))]
           /\ Acted.step = "_check_terminal" =>
                 proof' = [proof EXCEPT !.terminal_nodes = Append(@, c)]
           /\ Acted.step = "_check_abstract" =>
                 /\ proof'.kcfg.succs[Len(proof'.kcfg.succs)].kind = "Cover"
                 /\ proof'.terminal_nodes = proof.terminal_nodes
           /\ Acted.step = "_extract_branches" =>
                 /\ proof'.kcfg.succs[Len(proof'.kcfg.succs)].kind = "Split"
                 /\ proof'.terminal_nodes = proof.terminal_nodes
           /\ Acted.step = "extend" => proof'.terminal_nodes = proof.terminal_nodes
           /\ proof' # [proof EXCEPT !.kcfg.succs = Append(@, TargetCover(proof, c))] =>
                 trace'[1].result = "False"
    ]_vars

\* a pass in which the terminal check acted has happened, the node marked
\* after its subsumption check failed
C11_Witness ==
    /\ pc = "loop"
    /\ Len(trace) = 2
    /\ trace[1] = Returned("_check_subsume", trace[2].node, "False", None)
    /\ trace[2].step = "_check_terminal"
    /\ trace[2].node \in Range(proof.terminal_nodes)

\* the proof a session resumed from the record starts with
Resumed(record) == from_dict(record, ProofDir)

\* C12: every pass of the prover's loop (APRProver and APRBMCProver, the
\* bounded-marking bookkeeping included) leaves a record that is that of the
\* proof before or after the pass, the exit of the loop leaves the record
\* of the proof as it then is, and the proof a session resumed from the
\* record of a pass starts with is the proof before or after that pass: at
\* most one step is lost.
C12_RecordWithinOneStep ==
    [][/\ IsPass =>
            /\ disk' \in {dict(proof), dict(proof')}
            /\ Resumed(disk') \in {proof, proof'}
       /\ (pc = "loop" /\ pc' = "idle") => disk' = dict(proof')
    ]_vars


\* the passes of the running call are within its budget
WithinBudget == run.max_iterations # NoBudget => run.iterations <= run.max_iterations

\* a pass handles nothing but the first pending leaf in insertion order (of
\* the proof as the bookkeeping of the same pass left it), and is made only
\* while the budget is not used up
HandlesFirstPending ==
    IsPass =>
        /\ run.max_iterations # NoBudget => run.iterations < run.max_iterations
        /\ LET left == {n \in pending(proof) : IsBMC(proof) => ~is_bounded(proof', n)}
           IN \A i \in DOMAIN trace' :
                 trace'[i].step # "add_bounded" =>
                     trace'[i].node \in left /\ \A m \in left : trace'[i].node <= m
        /\ ~IsBMC(proof) => trace' # <<>>

\* advance_proof returns only with no pending leaf or the budget used up
ReturnsWhenDone ==
    (pc = "loop" /\ pc' = "idle") =>
        \/ pending(proof) = {}
        \/ run.max_iterations # NoBudget /\ run.iterations = run.max_iterations

\* the budget is used up, pending leaves remain, no leaf is failing and no
\* sub-proof has failed
BudgetUsedUp ==
    /\ pc = "loop"
    /\ run.max_iterations # NoBudget
    /\ run.iterations = run.max_iterations
    /\ pending(proof) # {}
    /\ failing(proof) = {}
    /\ ~AnySubproof(proof, substatus, FAILED)

\* C13 as stated: at most k passes for max_iterations = k, each on the first
\* pending leaf, a return only with nothing pending or the budget used up,
\* and with the budget used up, pending leaves and nothing failed the
\* status is PENDING.
C13_BudgetStopsPending ==
    /\ [](WithinBudget)
    /\ [][HandlesFirstPending /\ ReturnsWhenDone]_vars
    /\ [](BudgetUsedUp => status(proof, substatus) = PENDING)

\* C13: at most k passes for max_iterations = k, each on the first pending
\* leaf, a return only with nothing pending or the budget used up, and with
\* the budget used up, pending leaves and nothing failed the status is not
\* FAILED: PENDING, or PASSED when the proof is admitted.
C13_BudgetStopsNotFailed ==
    /\ [](WithinBudget)
    /\ [][HandlesFirstPending /\ ReturnsWhenDone]_vars
    /\ [](BudgetUsedUp =>
            status(proof, substatus) = (IF proof.admitted THEN PASSED ELSE PENDING))

\* a call with max_iterations = 2 has made its two passes, pending leaves
\* remain and the status is PENDING
C13_Witness ==
    /\ BudgetUsedUp
    /\ run.max_iterations = 2
    /\ ~proof.admitted
    /\ status(proof, substatus) = PENDING


\* the last pass of the running call made no progress: the backend step
\* reported nothing, and graph, marks and pending leaves are as before it
Stalled ==
    /\ pc = "loop"
    /\ trace # <<>>
    /\ trace[Len(trace)].step = "extend"
    /\ trace[Len(trace)].result = "nothing"

\* C14: after a pass that made no progress advance_proof makes no further
\* pass: it stops instead of iterating again, and a pass reported as one
\* without progress is one that left the proof as it was.
C14_NoProgressStops ==
    [][/\ Stalled => ~IsPass
       /\ (IsPass /\ Acted.result = "nothing") => proof' = proof
    ]_vars


\* C15: the backend step of a pass runs under the circularities rule-set
\* only on a node that is not at zero depth from init, and on a node at zero
\* depth from init, init included, under the dependencies rule-set; the
\* rule-set it runs under holds the proof's own claim only when circularity
\* is set and the node is not at zero depth from init.
C15_NoSelfCitationAtZeroDepth ==
    [][IsPass =>
        \A i \in DOMAIN trace' :
            trace'[i].step = "extend" =>
                LET c == trace'[i].node
                    zero == ZeroDepthBetween(proof.kcfg, proof.init, c)
                IN /\ trace'[i].module \in {DependenciesModule, CircularitiesModule}
                   /\ trace'[i].module = CircularitiesModule => ~zero
                   /\ zero => trace'[i].module = DependenciesModule
                   /\ c = proof.init => trace'[i].module = DependenciesModule
                   /\ proof.id \in RuleSet(proof, trace'[i].module) => (proof.circularity /\ ~zero)
                   /\ proof.id \notin RuleSet(proof, DependenciesModule)
    ]_vars

\* the backend step has run on a node past an Edge from init under the
\* circularities rule-set, which holds the proof's own claim
C15_Witness ==
    /\ pc = "loop"
    /\ trace # <<>>
    /\ trace[Len(trace)].step = "extend"
    /\ trace[Len(trace)].module = CircularitiesModule
    /\ trace[Len(trace)].node # proof.init
    /\ proof.id \in RuleSet(proof, CircularitiesModule)


----------------------------------------------------------------------------
(* Refuting a leaf *)

\* the step is a call of refute_node on the leaf n
IsRefuteNode(n) ==
    /\ pc = "idle"
    /\ Len(trace') = 1
    /\ trace'[1].step = "refute_node"
    /\ trace'[1].node = n

\* there is one simple path from init to n
HasOnePath(p, n) == Len(PathsBetween(p.kcfg, p.init, n)) = 1

\* the places of the branching successors on the path from init to n
BranchPlaces(p, n) ==
    LET path == PathsBetween(p.kcfg, p.init, n)[1]
    IN {i \in DOMAIN path : path[i].kind \in {"Split", "NDBranch"}}

\* the branching successor nearest to n on the path from init to n
NearestBranch(p, n) ==
    LET path == PathsBetween(p.kcfg, p.init, n)[1]
    IN path[CHOOSE i \in BranchPlaces(p, n) : \A j \in BranchPlaces(p, n) : j <= i]

\* the path from init to n is linear, or the branch nearest to n on it is
\* an NDBranch
NotRefutable(p, n) ==
    /\ HasOnePath(p, n)
    /\ \/ BranchPlaces(p, n) = {}
       \/ NearestBranch(p, n).kind = "NDBranch"

\* C16: refute_node on a leaf whose path from init holds no Split or
\* NDBranch, or whose nearest branch is an NDBranch, returns None: nothing
\* is raised, and sub-proof ids, node refutations and the sub-proofs are as
\* before.
C16_NoBranchNoRefutation ==
    [][\A n \in NodeIds(proof.kcfg) :
          (IsRefuteNode(n) /\ NotRefutable(proof, n)) =>
              /\ trace'[1].result = None
              /\ proof' = proof
              /\ substatus' = substatus
    ]_vars

\* refute_node has returned None for a leaf that follows an NDBranch
C16_Witness ==
    /\ Len(trace) = 1
    /\ trace[1].step = "refute_node"
    /\ trace[1].result = None
    /\ NotRefutable(proof, trace[1].node)
    /\ BranchPlaces(proof, trace[1].node) # {}
    /\ proof.node_refutations = <<>>


\* the branch nearest to n on its one path from init is a Split
AfterSplit(p, n) ==
    /\ HasOnePath(p, n)
    /\ BranchPlaces(p, n) # {}
    /\ NearestBranch(p, n).kind = "Split"

\* the constrained substitution of the branch of the nearest Split taken
\* toward n
TakenCsubst(p, n) == NearestBranch(p, n).csubsts[1]

\* C17: refute_node on a leaf whose nearest branch is a Split registers a
\* sub-proof when the branch taken carries an empty substitution and one
\* constraint, and for every other shape returns None, nothing raised and
\* nothing registered.
C17_OtherShapesFail ==
    [][\A n \in NodeIds(proof.kcfg) :
          (IsRefuteNode(n) /\ AfterSplit(proof, n)) =>
              IF TakenCsubst(proof, n) = [subst |-> 0, constraints |-> 1]
              THEN /\ trace'[1].result = "RefutationProof"
                   /\ n \in DOMAIN proof'.node_refutations
                   /\ proof'.node_refutations[n] \in proof'.subproof_ids
              ELSE /\ trace'[1].result = None
                   /\ proof' = proof
                   /\ substatus' = substatus
    ]_vars


\* C18: a leaf is refuted, and with that neither pending nor failing, only
\* once its refutation sub-proof is PASSED; and refute_node, which registers
\* a sub-proof that is still PENDING, leaves the leaf pending or failing as
\* it was.
C18_RefutedOnlyOncePassed ==
    /\ [](\A n \in Leaves(proof.kcfg) :
             is_refuted(proof, n) => substatus[proof.node_refutations[n]] = PASSED)
    /\ [][\A n \in Leaves(proof.kcfg) :
             IsRefuteNode(n) =>
                 /\ is_pending(proof', n) = is_pending(proof, n)
                 /\ is_failing(proof', n) = is_failing(proof, n)
       ]_vars


----------------------------------------------------------------------------
(* The bookkeeping of APRBMCProver *)

\* the sources of the successors on the shortest path from init to f that
\* same_loop relates to f, in the order of the path
HeadsBefore(p, f) ==
    LET path == ShortestPathBetween(p.kcfg, p.init, f)
        at == {i \in DOMAIN path : same_loop(p.kcfg, path[i].source, f)}
    IN [k \in 1..Cardinality(at) |->
           path[CHOOSE i \in at : Cardinality({j \in at : j <= i}) = k].source]

RECURSIVE IsAccepted(_, _, _)
\* the k-th of them is a distinct prior loop head: not at zero depth from f
\* nor from a head accepted before it
IsAccepted(p, f, k) ==
    LET hs == HeadsBefore(p, f)
    IN /\ ~ZeroDepthBetween(p.kcfg, hs[k], f)
       /\ \A j \in 1..(k - 1) :
             IsAccepted(p, f, j) => ~ZeroDepthBetween(p.kcfg, hs[k], hs[j])

\* the number of distinct prior loop heads of f
DistinctHeads(p, f) ==
    Cardinality({k \in DOMAIN HeadsBefore(p, f) : IsAccepted(p, f, k)})

\* C19: a pass of APRBMCProver.advance_proof leaves a pending leaf it has
\* not checked before bounded exactly when the leaf has more than bmc_depth
\* distinct prior loop heads, leaves the marks of the leaves checked before
\* as they are, and a bounded leaf is never pending.
C19_BoundedBeyondDepth ==
    /\ [][(IsPass /\ IsBMC(proof)) =>
            \A f \in pending(proof) :
                IF f \in checked
                THEN is_bounded(proof', f) = is_bounded(proof, f)
                ELSE is_bounded(proof', f) = (DistinctHeads(proof, f) > proof.bmc_depth)
       ]_vars
    /\ [](IsBMC(proof) =>
            \A f \in Leaves(proof.kcfg) : is_bounded(proof, f) => ~is_pending(proof, f))

\* the prover has bounded a leaf with two distinct prior loop heads in a
\* proof of bmc_depth 1, and the leaf is not pending
C19_Witness ==
    /\ IsBMC(proof)
    /\ proof.bmc_depth = 1
    /\ pc = "loop"
    /\ \E f \in Leaves(proof.kcfg) \cap checked :
          /\ is_bounded(proof, f)
          /\ DistinctHeads(proof, f) = 2
          /\ ~is_pending(proof, f)


\* the entries of trace' that are steps of the base prover
BaseSteps == SelectSeq(trace', LAMBDA e : e.step # "add_bounded")

\* the leaves the pass marked bounded
MarkedBounded == {trace'[i].node : i \in {j \in DOMAIN trace' : trace'[j].step = "add_bounded"}}

\* the pass bookkeeps every pending leaf not checked before, marking
\* bounded before any step of the base prover
BookkeepsFirst ==
    /\ checked' = checked \cup pending(proof)
    /\ MarkedBounded = Range(proof'.bounded_nodes) \ Range(proof.bounded_nodes)
    /\ MarkedBounded \subseteq pending(proof) \ checked
    /\ \A i, j \in DOMAIN trace' :
          (trace'[i].step = "add_bounded" /\ trace'[j].step # "add_bounded") => i < j

\* the pass makes one iteration of the base prover: one step acts, on one
\* node, the checks before it having returned False
OneBaseIteration ==
    /\ BaseSteps # <<>>
    /\ \A i \in DOMAIN BaseSteps : BaseSteps[i].node = BaseSteps[1].node
    /\ \A i \in 1..(Len(BaseSteps) - 1) : BaseSteps[i].result = "False"
    /\ BaseSteps[Len(BaseSteps)].result # "False"

\* C20 as stated: every pass of APRBMCProver.advance_proof bookkeeps the
\* pending leaves and then makes exactly one iteration of the base prover.
C20_AlwaysOneBaseIteration ==
    [][(IsPass /\ IsBMC(proof)) => (BookkeepsFirst /\ OneBaseIteration)]_vars

\* C20: every pass of APRBMCProver.advance_proof bookkeeps the pending
\* leaves and then makes exactly one iteration of the base prover if a
\* pending leaf is left, also when the bookkeeping marked leaves bounded,
\* and none if the bookkeeping left no leaf pending.
C20_OneBaseIterationIfPending ==
    [][(IsPass /\ IsBMC(proof)) =>
          /\ BookkeepsFirst
          /\ IF pending(proof) \ MarkedBounded # {}
             THEN OneBaseIteration
             ELSE BaseSteps = <<>> /\ proof' = [proof EXCEPT !.bounded_nodes = proof'.bounded_nodes]
    ]_vars

\* a pass has marked a leaf bounded and then made a base iteration on
\* another leaf
C20_Witness ==
    /\ IsBMC(proof)
    /\ pc = "loop"
    /\ Len(trace) >= 2
    /\ trace[1].step = "add_bounded"
    /\ trace[Len(trace)].step # "add_bounded"
    /\ trace[Len(trace)].node # trace[1].node
    /\ is_bounded(proof, trace[1].node)


----------------------------------------------------------------------------
(* The graph over a session *)

\* the sequence s is the sequence t or t with more at its end
Extends(s, t) == Len(s) >= Len(t) /\ SubSeq(s, 1, Len(t)) = t

\* the graph after the step has every node and successor it had, unaltered
GraphGrows ==
    /\ Extends(proof'.kcfg.nodes, proof.kcfg.nodes)
    /\ Extends(proof'.kcfg.succs, proof.kcfg.succs)
    /\ proof.kcfg.stuck \subseteq proof'.kcfg.stuck

\* a step that changes the terminal or the bounded marks outside a run of
\* the prover (add_terminal, remove_terminal, add_bounded) leaves the graph
\* as it is
MarkingKeepsGraph ==
    (/\ pc = "idle"
     /\ \/ proof'.terminal_nodes # proof.terminal_nodes
        \/ IsBMC(proof) /\ proof'.bounded_nodes # proof.bounded_nodes)
        => proof'.kcfg = proof.kcfg

\* removing the bounded mark of a leaf takes the mark off and raises nothing
RemoveBoundedSupported ==
    (Len(trace') = 1 /\ trace'[1].step = "remove_bounded") =>
        /\ trace'[1].result = None
        /\ ~is_bounded(proof', trace'[1].node)

\* C21: no step of the prover and no marking operation removes or alters a
\* node or a successor, a change of the terminal or bounded marks leaves
\* the graph unchanged, and the bounded mark of a leaf can be removed as
\* the terminal mark can.
C21_GraphOnlyGrows ==
    [][GraphGrows /\ MarkingKeepsGraph /\ RemoveBoundedSupported]_vars


\* the node n has an incoming successor
HasIncoming(p, n) == PredecessorsOf(p.kcfg, n) # {}

\* C22 as stated: once the graph made from a claim has a successor, every
\* node other than init, the target included, has an incoming successor.
C22_AllButInitHaveIncoming ==
    proof.kcfg.succs # <<>> =>
        \A n \in NodeIds(proof.kcfg) \ {proof.init} : HasIncoming(proof, n)

\* C22: once the graph made from a claim has a successor, every node other
\* than init and the target has an incoming successor; the target has one
\* from the first Cover into it on.
C22_CreatedNodesHaveIncoming ==
    /\ proof.kcfg.succs # <<>> =>
          \A n \in NodeIds(proof.kcfg) \ {proof.init, proof.target} : HasIncoming(proof, n)
    /\ (\E i \in DOMAIN proof.kcfg.succs :
           proof.kcfg.succs[i].kind = "Cover" /\ proof.kcfg.succs[i].targets = <<proof.target>>)
          => HasIncoming(proof, proof.target)

\* the prover has added nodes and successors and no Cover leads into the
\* target yet
C22_Witness ==
    /\ Len(proof.kcfg.nodes) = 4
    /\ Len(proof.kcfg.succs) >= 2
    /\ ~HasIncoming(proof, proof.target)
    /\ \A n \in {3, 4} : HasIncoming(proof, n)


\* the proof of the chain claim is done: advance_proof has returned, the
\* status is PASSED, the target is the one leaf, nothing is pending or
\* failing, and the chain leads by Edges from init to a node covered by the
\* target
ChainProved ==
    /\ pc = "idle"
    /\ status(proof, substatus) = PASSED
    /\ Leaves(proof.kcfg) = {proof.target}
    /\ pending(proof) = {}
    /\ failing(proof) = {}
    /\ \A i \in DOMAIN proof.kcfg.succs :
          proof.kcfg.succs[i].kind = (IF i = Len(proof.kcfg.succs) THEN "Cover" ELSE "Edge")

\* C23: for a claim whose execution is a linear chain of Edges from init
\* ending in a state that implies the target, a call of advance_proof
\* without budget returns, with status PASSED, the target the only leaf, and
\* no pending and no failing leaf.
C23_ChainConverges ==
    (pc = "loop" /\ run.max_iterations = NoBudget) ~> ChainProved

\* a chain of MaxChain steps has been proved
C23_Witness ==
    /\ ChainProved
    /\ Len(proof.kcfg.succs) = MaxChain + 1
    /\ PathLength(ShortestPathBetween(proof.kcfg, proof.init, proof.target)) = MaxChain


(* The sort lattice *)

\* the latest call was is_subsort, and it returned b
SubsortAnswered(sort1, sort2, b) ==
    /\ answer.call = "is_subsort"
    /\ answer.args = <<sort1, sort2>>
    /\ answer.result = ReturnedBool(b)

\* C24: for every sort a and every set of declared subsort facts,
\* is_subsort(a, a) holds and is_subsort(a, top) holds, and
\* is_subsort(top, b) holds only for b = top.
C24_ReflexiveAndTop ==
    answer.call = "is_subsort" =>
        LET a == answer.args[1]
            b == answer.args[2]
        IN /\ (a = b \/ b = SortK) => answer.result = ReturnedBool(TRUE)
           /\ (a = SortK /\ answer.result = ReturnedBool(TRUE)) => b = SortK

\* the top sort was found not to be a subsort of a sort that has subsorts
C24_Witness ==
    \E b \in UserSorts :
        /\ SubsortAnswered(SortK, b, FALSE)
        /\ TableGet(subsort_table(kompiled), b) # {}


\* two calls of meet_sorts came to the same: the same sort, or both failed
SameOutcome(r1, r2) == IF r1.tag = "sort" THEN r2 = r1 ELSE r2.tag # "sort"

\* what the claim says of the call of meet_sorts that was made last
MeetCommutes ==
    LET a == answer.args[1]
        b == answer.args[2]
    IN /\ SameOutcome(answer.result, meet_sorts(kompiled, b, a))
       /\ b = SortK => answer.result = ReturnedSort(a)
       /\ a = SortK => answer.result = ReturnedSort(b)

\* no two sorts are declared subsorts of each other
NoMutualSubsorts(facts) == \A f \in facts : <<f[2], f[1]>> \notin facts

CommonSubsorts(facts, a, b) == {c \in Sorts : is_subsort(facts, c, a) /\ is_subsort(facts, c, b)}

\* the common subsorts with the largest number of declared subsorts
MaxCountSubsorts(facts, a, b) ==
    LET common == CommonSubsorts(facts, a, b)
        nr(s) == Cardinality(TableGet(subsort_table(facts), s))
    IN {s \in common : \A other \in common : nr(other) <= nr(s)}

\* m is a common subsort of a and b that every common subsort is a subsort of
IsGreatestCommonSubsort(facts, m, a, b) ==
    /\ m \in CommonSubsorts(facts, a, b)
    /\ \A c \in CommonSubsorts(facts, a, b) : is_subsort(facts, c, m)

\* the sort that meet_sorts returned is the greatest common subsort
MeetIsGreatest ==
    answer.result.tag = "sort" =>
        IsGreatestCommonSubsort(kompiled, answer.result.sort, answer.args[1], answer.args[2])

\* meet_sorts fails when there is no common subsort, and when neither sort is
\* a subsort of the other and the largest number of subsorts is not unique
MeetFailsWhenNoneOrTied ==
    LET a == answer.args[1]
        b == answer.args[2]
    IN /\ CommonSubsorts(kompiled, a, b) = {} => answer.result.tag = "ValueError"
       /\ (/\ ~is_subsort(kompiled, a, b)
           /\ ~is_subsort(kompiled, b, a)
           /\ Cardinality(MaxCountSubsorts(kompiled, a, b)) > 1) => answer.result.tag = "ValueError"

\* C26: whenever meet(a, b) returns a sort m, m is a subsort of a and of b
\* and every common subsort of a and b is a subsort of m; meet fails with an
\* error when a and b have no common subsort and when the common subsort of
\* maximal subsort count is not unique.
C26_MeetIsGreatestCommonSubsort ==
    answer.call = "meet_sorts" => MeetIsGreatest /\ MeetFailsWhenNoneOrTied


\* C27: the sort lattice maps each sort to all its direct and transitive
\* subsorts: for every set of declared subsort facts, is_subsort(a, b) and
\* is_subsort(b, c) imply is_subsort(a, c).
C27_SubsortTransitive ==
    (answer.call = "is_subsort" /\ answer.result = ReturnedBool(TRUE)) =>
        \A c \in Sorts :
            is_subsort(kompiled, answer.args[2], c) => is_subsort(kompiled, answer.args[1], c)



(* Injections *)

\* the subsort facts that follow from the declared ones
RECURSIVE TransitiveFacts(_)
TransitiveFacts(facts) ==
    LET more == facts \cup {<<p[1][1], p[2][2]>> : p \in {q \in facts \X facts : q[1][2] = q[2][1]}}
    IN IF more = facts THEN facts ELSE TransitiveFacts(more)

\* out is the term in with its children retyped (Core), or in retyped
\* against the sort required (Retyped): unchanged at the top if its sort is
\* the one required, wrapped in one injection tagged with both sorts if its
\* sort is a strict subsort of it
RECURSIVE Core(_, _, _), Retyped(_, _, _, _)
Core(facts, in, out) ==
    /\ out.kind = in.kind
    /\ in.kind = "EVar" => out = in
    /\ in.kind = "App" =>
          /\ out.symbol = in.symbol
          /\ out.sorts = in.sorts
          /\ Len(out.args) = Len(in.args)
          /\ \A i \in 1..Len(in.args) : Retyped(facts, in.args[i], out.args[i], in.symbol.params[i])

Retyped(facts, in, out, required) ==
    IF infer_sort(in) = required THEN Core(facts, in, out)
    ELSE /\ is_subsort(facts, infer_sort(in), required)
         /\ out.kind = "App"
         /\ out.symbol.name = "inj"
         /\ out.sorts = <<infer_sort(in), required>>
         /\ Len(out.args) = 1
         /\ Core(facts, in, out.args[1])

\* the pairs <<actual, required>> of the levels of a term whose sort is
\* neither the sort required nor a subsort of it
RECURSIVE Mismatches(_, _, _)
Mismatches(facts, in, required) ==
    LET here == IF is_subsort(facts, infer_sort(in), required) THEN {} ELSE {<<infer_sort(in), required>>}
        below == IF in.kind = "App"
                 THEN UNION {Mismatches(facts, in.args[i], in.symbol.params[i]) : i \in 1..Len(in.args)}
                 ELSE {}
    IN here \cup below

\* what the claim says of the call of add_injections that returned last,
\* the subsorts of a sort being those of facts
InjectionsAdded(facts) ==
    LET in == answer.args[1]
        required == IF answer.args[2] = Absent THEN SortK ELSE answer.args[2].value
        bad == Mismatches(facts, in, required)
    IN IF bad = {}
       THEN answer.result.tag = "pattern" /\ Retyped(facts, in, answer.result.pattern, required)
       ELSE answer.result.tag = "ValueError" /\ answer.result.names \in bad

\* C28: add_injections retypes a term bottom-up, each child against the sort
\* its parent symbol declares: at each level a term of the required sort is
\* returned unchanged, a term of a strict subsort of it (a direct or a
\* transitive one) is wrapped in exactly one injection tagged (actual,
\* required), and in every other case the call fails with an error naming
\* both sorts; the default required sort is the top sort.
C28_InjectionsAdded ==
    (answer.call = "add_injections" /\ answer.result # Pending) =>
        InjectionsAdded(TransitiveFacts(kompiled))


(* Invocations of krun *)

\* the latest call failed with a ValueError and started no process
RejectedBeforeStart ==
    /\ ~invoked.result.started
    /\ invoked.result.rc = Absent
    /\ invoked.result.outcome.tag = "ValueError"

HasPGM == invoked.call = "run" /\ invoked.config.tag = "Some" /\ "PGM" \in invoked.config.value

NegativeDepth == invoked.depth.tag = "Some" /\ invoked.depth.value < 0

\* C29: KRun.run fails with an error before any krun process is started when
\* the config contains the variable PGM, and a krun invocation with a
\* negative depth fails with an error before any process is started; a depth
\* of zero or no depth is accepted.
C29_RejectedBeforeStart ==
    invoked.call \in {"run", "_krun"} =>
        /\ HasPGM => RejectedBeforeStart /\ invoked.result.outcome.carries = {"PGM"}
        /\ NegativeDepth => RejectedBeforeStart
        /\ (~HasPGM /\ ~NegativeDepth) => invoked.result.started /\ invoked.result.outcome.tag # "ValueError"

\* KRun.run was called with a config without PGM and a negative depth, and
\* failed on the depth
C29_Witness ==
    /\ invoked.call = "run"
    /\ invoked.config = Some({"X"})
    /\ invoked.depth = Some(0 - MaxDepth)
    /\ RejectedBeforeStart
    /\ invoked.result.outcome.carries = {"depth"}

\* the latest call found an exit code that was not expected
Mismatch ==
    /\ invoked.call = "run"
    /\ invoked.result.started
    /\ ~check_return_code(invoked.result.rc.value, invoked.expect_rc)

\* C30: a krun invocation returns a result only if the exit code of the
\* process is among the expected codes; for every mismatch, whether expect_rc
\* is the single code 0 or a set of codes, a single error is raised that
\* carries the expected and the actual code together with the captured stdout
\* and stderr, and no result is returned.
C30_MismatchReported ==
    invoked.call = "run" =>
        /\ invoked.result.outcome.tag = "CTerm" =>
              invoked.result.started /\ check_return_code(invoked.result.rc.value, invoked.expect_rc)
        /\ Mismatch =>
              /\ invoked.result.outcome.tag = "RuntimeError"
              /\ {"expected", "actual", "stdout", "stderr"} \subseteq invoked.result.outcome.carries


(* The branch heuristic *)

\* the node the steps of the pass were called on
Handled == BaseSteps[1].node

\* the first three steps return False on the node and the branch extractor
\* returns discriminants for it, whenever they are called
OnlyBranches(p, c) ==
    /\ ImpliesAnswers(p, c) = {FALSE}
    /\ TerminalAnswers(p, c) = {FALSE}
    /\ AbstractAnswers(p, c) = {FALSE}
    /\ BranchAnswers(p, c) = {TRUE}

\* the node is the source of no Split
NoSplitFrom(p, c) == \A i \in SuccessorsOf(p.kcfg, c) : p.kcfg.succs[i].kind # "Split"

\* the pass made a Split of the node into one new child per discriminant,
\* each child constrained by its discriminant, and did not call the backend
SplitOnBranches(c) ==
    LET n == Len(proof.kcfg.nodes)
        one == [subst |-> 0, constraints |-> 1]
    IN /\ Len(proof'.kcfg.nodes) = n + 2
       /\ proof'.kcfg.succs = Append(proof.kcfg.succs, [kind |-> "Split", source |-> c, targets |-> <<n + 1, n + 2>>, depth |-> 0, csubsts |-> <<one, one>>])
       /\ proof'.kcfg.nodes[n + 1].branch # proof'.kcfg.nodes[n + 2].branch
       /\ Acted.step = "_extract_branches"
       /\ \A i \in DOMAIN BaseSteps : BaseSteps[i].step # "extend"

\* the pass did not call the branch extractor and made the backend step
SteppedWithoutBranches ==
    /\ Acted.step = "extend"
    /\ \A i \in DOMAIN BaseSteps : BaseSteps[i].step # "_extract_branches"

\* C31: when the current node passes none of steps 1-3, has no existing
\* Split, and the branch extractor returns a non-empty set of discriminants,
\* the iteration creates a Split of the current node with one child per
\* discriminant and makes no backend call; this holds for every such node,
\* including one that was itself produced as a child of an earlier Split.
C31_SplitsEverySuchNode ==
    [][(IsPass /\ BaseSteps # <<>> /\ OnlyBranches(proof, Handled) /\ NoSplitFrom(proof, Handled))
          => SplitOnBranches(Handled)]_vars

\* C31, amended: the same for a node that no Split leads into; a node that
\* is a child of a Split is not given to the branch extractor and gets the
\* backend step.
C31_SplitsUnlessSplitChild ==
    [][(IsPass /\ BaseSteps # <<>> /\ OnlyBranches(proof, Handled) /\ NoSplitFrom(proof, Handled))
          => IF SplitsInto(proof.kcfg, Handled) = {}
             THEN SplitOnBranches(Handled)
             ELSE SteppedWithoutBranches]_vars

\* the node at the loop head was split and a child of that Split, for which
\* the extractor returns discriminants again, got the backend step
C31_Witness ==
    /\ trace # <<>>
    /\ trace[Len(trace)].step = "extend"
    /\ LET c == trace[Len(trace)].node
       IN /\ SplitsInto(proof.kcfg, c) # {}
          /\ proof.kcfg.nodes[c].loop
          /\ \E i \in SuccessorsOf(proof.kcfg, c) : proof.kcfg.succs[i].kind = "Edge"


(* Path constraints *)

\* the Covers with a substitution before place j of the path, the nearest
\* first: their substitutions are applied, in that order, to what the
\* successor at j contributes
CoversBefore(path, j) ==
    LET places == {i \in 1..(j - 1) : path[i].kind = "Cover" /\ path[i].csubsts[1].subst > 0}
    IN Reverse(<<>> \o [k \in DOMAIN SeqOfSet(places) |-> path[SeqOfSet(places)[k]].source])

\* what the successor at place j of the path contributes: a Split the
\* bindings and the constraints of the branch taken, a Cover its constraints,
\* an Edge and an NDBranch nothing
Contribution(path, j) ==
    LET s == path[j]
        own == IF s.kind = "Split" THEN ml_pred(s) \o constraint(s)
               ELSE IF s.kind = "Cover" THEN constraint(s)
               ELSE <<>>
    IN <<>> \o [k \in DOMAIN own |-> [own[k] EXCEPT !.under = CoversBefore(path, j)]]

\* the conjunction the claim describes for the path
ExpectedConstraint(path) == Flatten([j \in DOMAIN path |-> Contribution(path, j)])

\* the latest call was path_constraints, on a node that init leads to
PathAsked ==
    /\ Len(trace) = 1
    /\ trace[1].step = "path_constraints"
    /\ shortest_path_to(proof, trace[1].node) # NoPath

\* C32: path_constraints(leaf) walks the shortest init-to-leaf path in
\* reverse and conjoins, for each Split, the taken branch's substitution
\* predicate and constraint with what is accumulated so far, and for each
\* Cover its constraint with the accumulated constraint under the Cover's
\* substitution; Edges and NDBranches contribute nothing, so for a path made
\* only of Edges the result is the trivially true constraint.
C32_PathConstraints ==
    PathAsked =>
        LET path == shortest_path_to(proof, trace[1].node)
        IN /\ trace[1].result.tag = "constraint"
           /\ trace[1].result.conjuncts = ExpectedConstraint(path)
           /\ (\A j \in DOMAIN path : path[j].kind \in {"Edge", "NDBranch"}) => trace[1].result.conjuncts = <<>>

\* the constraints of the target were asked for, over a path with both
\* Covers, the Split and the NDBranch: the conjuncts of the Split and of the
\* second Cover are under the substitution of the first Cover, those of the
\* first Cover under none
C32_Witness ==
    /\ PathAsked
    /\ trace[1].node = proof.target
    /\ Len(shortest_path_to(proof, proof.target)) = 6
    /\ \E i \in DOMAIN trace[1].result.conjuncts :
          /\ trace[1].result.conjuncts[i].part = "subst"
          /\ trace[1].result.conjuncts[i].under = <<3>>
    /\ \E i \in DOMAIN trace[1].result.conjuncts :
          /\ trace[1].result.conjuncts[i].source = 3
          /\ trace[1].result.conjuncts[i].under = <<>>
    /\ \E i \in DOMAIN trace[1].result.conjuncts :
          /\ trace[1].result.conjuncts[i].source = 9
          /\ trace[1].result.conjuncts[i].under = <<3>>


----------------------------------------------------------------------------
(* Bounded leaves *)

\* the prover has not acted on the leaf n of proof': it has no terminal
\* mark and no stuck mark, and being a leaf it is the source of no Cover,
\* Split, Edge or NDBranch
Unhandled(n) ==
    /\ n \in Leaves(proof'.kcfg)
    /\ ~is_terminal(proof', n)
    /\ ~IsStuck(proof'.kcfg, n)

\* the pass bookkeeps each pending leaf the first time it sees it, and the
\* node its base iteration handles has been bookkept and is not bounded
BookkeptBeforeHandled ==
    /\ checked' = checked \cup pending(proof)
    /\ MarkedBounded \subseteq pending(proof) \ checked
    /\ BaseSteps # <<>> =>
          /\ \A i \in DOMAIN BaseSteps : BaseSteps[i].node \in checked'
          /\ \A i \in DOMAIN BaseSteps : ~is_bounded(proof', BaseSteps[i].node)

\* the pass leaves the leaf n, bounded before it, as it was
LeftAlone(n) ==
    /\ n \in Leaves(proof'.kcfg)
    /\ is_terminal(proof', n) = is_terminal(proof, n)
    /\ IsStuck(proof'.kcfg, n) = IsStuck(proof.kcfg, n)
    /\ proof'.kcfg.nodes[n] = proof.kcfg.nodes[n]

\* C33: in APRBMCProver every pending leaf is bookkept against the loop
\* bound in the first pass that sees it and never again, before the base
\* prover handles it; the node a pass handles is not bounded, a pass leaves
\* every bounded leaf as it was, no bounded leaf has a terminal or stuck
\* mark or a successor, and a node once marked bounded stays bounded.
C33_BoundedLeavesUntouched ==
    [][/\ \A n \in bounded(proof') : Unhandled(n)
       /\ Range(proof.bounded_nodes) \subseteq Range(proof'.bounded_nodes)
       /\ checked \subseteq checked'
       /\ (IsPass /\ IsBMC(proof)) =>
             /\ BookkeptBeforeHandled
             /\ \A n \in bounded(proof) : LeftAlone(n)
    ]_vars

\* the call of advance_proof has returned: a leaf its bookkeeping marked
\* bounded is still a bounded leaf, and the prover has handled a node made
\* no earlier than that leaf, in the pass that marked it or after
C33_Witness ==
    /\ IsBMC(proof)
    /\ pc = "idle"
    /\ \E f \in bounded(proof) \cap checked :
          /\ DistinctHeads(proof, f) > proof.bmc_depth
          /\ \E m \in checked :
                /\ m > f
                /\ \/ m \notin Leaves(proof.kcfg)
                   \/ is_terminal(proof, m)
                   \/ IsStuck(proof.kcfg, m)


----------------------------------------------------------------------------
(* Terminal marks *)

\* how often the value x occurs in the list s
Occurrences(s, x) == Cardinality({i \in DOMAIN s : s[i] = x})

\* the step is a call of remove_terminal(n) that returned: an entry for n
\* has gone from _terminal_nodes
RemoveTerminalReturned(n) ==
    /\ pc = "idle"
    /\ Occurrences(proof'.terminal_nodes, Resolve(proof.kcfg, n))
          < Occurrences(proof.terminal_nodes, Resolve(proof.kcfg, n))

\* C34: once remove_terminal(n) has returned, is_terminal(n) is False, also
\* when n was added more than once, and the terminal status of every other
\* node is as before.
C34_RemovedIsNotTerminal ==
    [][\A n \in NodeIds(proof.kcfg) :
          RemoveTerminalReturned(n) =>
             /\ ~is_terminal(proof', n)
             /\ \A m \in NodeIds(proof.kcfg) \ {n} :
                   is_terminal(proof', m) = is_terminal(proof, m)
    ]_vars


----------------------------------------------------------------------------
(* Refuting and unrefuting *)

\* the step is a call of refute_node(n) that returned a RefutationProof
RefuteSucceeded(n) ==
    /\ IsRefuteNode(n)
    /\ trace'[1].result = "RefutationProof"

\* the leaves of q are classified as those of proof
SameClassification(q) ==
    \A m \in Leaves(proof.kcfg) :
       /\ is_pending(q, m) = is_pending(proof, m)
       /\ is_failing(q, m) = is_failing(proof, m)
       /\ is_refuted(q, m) = is_refuted(proof, m)
       /\ is_terminal(q, m) = is_terminal(proof, m)

\* unrefute_node(n) after the refute_node(n) of this step gives back the
\* node_refutations and sub-proof ids the proof had before the step, with
\* every leaf classified as before, and neither call changes the graph
UnrefuteRestores(n) ==
    LET q == unrefute_node(proof', n)
    IN /\ q.node_refutations = proof.node_refutations
       /\ q.subproof_ids = proof.subproof_ids
       /\ SameClassification(q)
       /\ proof'.kcfg = proof.kcfg
       /\ q.kcfg = proof.kcfg

\* C35 as stated: a successful refute_node(n) followed by unrefute_node(n)
\* restores node_refutations and the sub-proof ids, every leaf has its
\* earlier classification and the graph is unchanged.
C35_UnrefuteRestores ==
    [][\A n \in NodeIds(proof.kcfg) : RefuteSucceeded(n) => UnrefuteRestores(n)]_vars

\* C35: a successful refute_node(n) on a node that has no refutation yet,
\* followed by unrefute_node(n), restores node_refutations and the
\* sub-proof ids, every leaf has its earlier classification and the graph
\* is unchanged; and every unrefute_node(n) that returns leaves n without
\* refutation and without its sub-proof id, and the graph as it was.
C35_UnrefuteRestoresUnrefuted ==
    [][\A n \in NodeIds(proof.kcfg) :
          /\ (RefuteSucceeded(n) /\ ~is_refuted(proof, n)) => UnrefuteRestores(n)
          /\ (pc = "idle" /\ trace' = <<Returned("unrefute_node", n, None, None)>>) =>
                /\ proof' = unrefute_node(proof, n)
                /\ ~is_refuted(proof', n)
                /\ get_refutation_id(proof, n) \notin proof'.subproof_ids
                /\ proof'.kcfg = proof.kcfg
    ]_vars

\* unrefute_node has returned for a leaf that refute_node had refuted: the
\* leaf is pending again, and the proof has no refutation and no sub-proof
C35_Witness ==
    /\ pc = "idle"
    /\ Len(trace) = 1
    /\ trace[1].step = "unrefute_node"
    /\ trace[1].result = None
    /\ trace[1].node \in pending(proof)
    /\ proof.node_refutations = <<>>
    /\ proof.subproof_ids = {}

====
